---- MODULE Spec2Model ----
(***************************************************************************)
(* A model of the technical-indicator signal aggregator                    *)
(* (python/technical_indicators.py) and of the iterative forecasters       *)
(* (python/predict_lstm_eth.py, python/lstm_train.py).                     *)
(*                                                                         *)
(* Python floats are modelled exactly where the code only adds, compares   *)
(* and divides small integers (the aggregator: rationals kept as           *)
(* numerator/denominator), and as fixed-point integers elsewhere.          *)
(***************************************************************************)
EXTENDS Integers, Sequences, FiniteSets, TLC

\* ------------------------------------------------------------------------
\* Bounds of the model
\* ------------------------------------------------------------------------

\* Longest indicator list a caller passes explicitly.
MaxList == 2

\* Outcomes per indicator that a call with the default list is run on.
MaxOutcomes == 3

\* Fixed-point units per price unit.
Resolution == 10

\* Raw series the forecasters are run on, and their two lengths.
NumSeries == 2
ShortLen == 70
FullLen == 160

\* The free predictor returns a normalized close k / PredLevels, k in 0..PredLevels.
PredLevels == 1

\* The pipeline is run on the series cut to FullLen - LenSpread .. FullLen days.
LenSpread == 12

\* create_sequences is also called directly with window lengths 1..MaxWindow on
\* up to MaxSamples rows more than the window.
MaxWindow == 3
MaxSamples == 2
\* The calculate_* functions are called on price lists of up to MaxPrices
\* prices at levels 1..PriceLevels, and on volume lists of up to MaxVolumes
\* volumes at levels 0..VolumeLevels.
MaxPrices == 5
PriceLevels == 3
MaxVolumes == 3
VolumeLevels == 4

\* ------------------------------------------------------------------------
\* Signal aggregator: technical_indicators.py
\* ------------------------------------------------------------------------

\* Variant of signal_weights with the weights of OVERSOLD and OVERBOUGHT
\* exchanged.
signal_weights_swapped ==
    [s \in {"STRONG_BULLISH", "BULLISH", "BUY", "OVERSOLD", "NEUTRAL",
            "BEARISH", "SELL", "STRONG_BEARISH", "OVERBOUGHT"} |->
        CASE s = "STRONG_BULLISH" -> 3
          [] s = "BULLISH"        -> 2
          [] s = "BUY"            -> 2
          [] s = "OVERSOLD"       -> -1
          [] s = "NEUTRAL"        -> 0
          [] s = "BEARISH"        -> -2
          [] s = "SELL"           -> -2
          [] s = "STRONG_BEARISH" -> -3
          [] s = "OVERBOUGHT"     -> 1]

\* The keys of signal_weights, i.e. the categorical signals that are scored.
signal_weights ==
    [s \in {"STRONG_BULLISH", "BULLISH", "BUY", "OVERSOLD", "NEUTRAL",
            "BEARISH", "SELL", "STRONG_BEARISH", "OVERBOUGHT"} |->
        CASE s = "STRONG_BULLISH" -> 3
          [] s = "BULLISH"        -> 2
          [] s = "BUY"            -> 2
          [] s = "OVERSOLD"       -> 1
          [] s = "NEUTRAL"        -> 0
          [] s = "BEARISH"        -> -2
          [] s = "SELL"           -> -2
          [] s = "STRONG_BEARISH" -> -3
          [] s = "OVERBOUGHT"     -> -1]

\* A Python value that is None, a str or a float.
NoneVal == [kind |-> "none", s |-> "", n |-> 0]
StrVal(x) == [kind |-> "str", s |-> x, n |-> 0]
NumVal(x) == [kind |-> "num", s |-> "", n |-> x]

\* The dict an indicator returns, read through the keys the aggregator looks at:
\* 'error' in value, value['signal'] (absent: kind "none"), value['trend'].
ErrorResult == [error |-> TRUE, signal |-> NoneVal, trend |-> NoneVal]
SignalResult(s) == [error |-> FALSE, signal |-> StrVal(s), trend |-> NoneVal]
\* calculate_macd returns "signal": round(current_signal, 4), a number (here in
\* units of 1e-4), and the category under "trend".
MacdResult(n, t) == [error |-> FALSE, signal |-> NumVal(n), trend |-> StrVal(t)]

\* Every value each calculate_* can return, the error first.
RsiOutcomeList ==
    <<ErrorResult, SignalResult("OVERSOLD"), SignalResult("OVERBOUGHT"),
      SignalResult("NEUTRAL")>>
MacdOutcomeList ==
    <<ErrorResult, MacdResult(1, "BUY"), MacdResult(0, "SELL"), MacdResult(1, "BULLISH"),
      MacdResult(1, "BEARISH"), MacdResult(0, "BUY"), MacdResult(1, "SELL"),
      MacdResult(0, "BULLISH"), MacdResult(0, "BEARISH")>>
BollingerOutcomeList ==
    <<ErrorResult, SignalResult("BULLISH"), SignalResult("OVERBOUGHT"),
      SignalResult("OVERSOLD"), SignalResult("BEARISH")>>
EmaOutcomeList ==
    <<ErrorResult, SignalResult("STRONG_BULLISH"), SignalResult("STRONG_BEARISH"),
      SignalResult("BULLISH"), SignalResult("BEARISH")>>
SmaOutcomeList ==
    <<ErrorResult, SignalResult("STRONG_BEARISH"), SignalResult("BULLISH"),
      SignalResult("STRONG_BULLISH"), SignalResult("BEARISH")>>
StochasticOutcomeList ==
    <<ErrorResult, SignalResult("BUY"), SignalResult("OVERBOUGHT"), SignalResult("OVERSOLD"),
      SignalResult("SELL"), SignalResult("BULLISH"), SignalResult("BEARISH")>>
VolumeOutcomeList ==
    <<ErrorResult, SignalResult("STRONG_BULLISH"), SignalResult("NEUTRAL"),
      SignalResult("STRONG_BEARISH"), SignalResult("BULLISH"), SignalResult("BEARISH")>>

\* The names calculate_multiple_indicators dispatches on.
IndicatorNames == {"rsi", "macd", "bollinger", "ema", "sma", "stochastic", "volume"}

\* An element of the indicator list that is not a str: .lower() raises on it.
NonStr == "<non-str>"

\* What a caller may put in the list: the names, one of them in another case, a
\* name the code does not know, and an object that is no string.
NameChoices == IndicatorNames \cup {"RSI", "foo", NonStr}

\* str.lower() on the names of the model.
Lower(s) ==
    CASE s = "RSI"    -> "rsi"
      [] s = "Volume" -> "volume"
      [] s = "ALL"    -> "all"
      [] OTHER        -> s

\* str.upper() on the keys of results.
Upper(s) ==
    CASE s = "rsi"        -> "RSI"
      [] s = "macd"       -> "MACD"
      [] s = "bollinger"  -> "BOLLINGER"
      [] s = "ema"        -> "EMA"
      [] s = "sma"        -> "SMA"
      [] s = "stochastic" -> "STOCHASTIC"
      [] s = "volume"     -> "VOLUME"
      [] s = "foo"        -> "FOO"
      [] OTHER            -> s

\* dict[key] = value on an insertion-ordered dict kept as a sequence of entries.
RECURSIVE DictSet(_, _, _)
DictSet(d, k, v) ==
    IF d = <<>> THEN << [key |-> k, value |-> v] >>
    ELSE IF Head(d).key = k THEN << [key |-> k, value |-> v] >> \o Tail(d)
    ELSE << Head(d) >> \o DictSet(Tail(d), k, v)

DictKeys(d) == {d[i].key : i \in 1..Len(d)}

\* The caller's argument `indicators`: None, or a list object.
NoneList == [none |-> TRUE, items |-> <<>>]
ListOf(items) == [none |-> FALSE, items |-> items]

\* Variant of DefaultIndicators in which 'volume' is appended whenever volumes
\* are given, also to a list the caller passed.
DefaultIndicators_AppendsAlways(ind, vol) ==
    LET base == IF ind.none
                THEN <<"rsi", "macd", "bollinger", "ema", "sma", "stochastic">>
                ELSE ind.items
        l == IF vol THEN Append(base, "volume") ELSE base
    IN [local |-> l, caller |-> IF ind.none THEN ind ELSE ListOf(l)]

\* Lines 406-409: the list the loop runs over (`local`), and the content of the
\* caller's list object afterwards (`caller`).  A list that was passed is the
\* same object as the local one; the default list is a fresh one, and only that
\* one is appended to.
DefaultIndicators(ind, vol) ==
    IF ind.none
    THEN [local  |-> IF vol
                     THEN <<"rsi", "macd", "bollinger", "ema", "sma", "stochastic", "volume">>
                     ELSE <<"rsi", "macd", "bollinger", "ema", "sma", "stochastic">>,
          caller |-> ind]
    ELSE [local |-> ind.items, caller |-> ind]

\* Variant of ComputeIndicator that keeps no entry for an indicator that
\* returned an error or raised.
ComputeIndicator_DropsErrors(results, indicator, mk, vol) ==
    IF indicator = NonStr
    THEN results
    ELSE LET low == Lower(indicator) IN
         IF low \in {"rsi", "macd", "bollinger", "ema", "sma", "stochastic"}
         THEN IF mk[low].error THEN results ELSE DictSet(results, low, mk[low])
         ELSE IF low = "volume" /\ vol
         THEN IF mk["volume"].error THEN results
              ELSE DictSet(results, "volume", mk["volume"])
         ELSE results

\* One iteration of the loop of lines 413-430 on list element `indicator`.
\* mk[name] is what calculate_<name> returns on the caller's prices, highs,
\* lows and volumes; vol is the truth value of `volumes`.
ComputeIndicator(results, indicator, mk, vol) ==
    IF indicator = NonStr
    THEN \* indicator.lower() raises; line 430 stores the error under the element
         DictSet(results, indicator, ErrorResult)
    ELSE LET low == Lower(indicator) IN
         IF low \in {"rsi", "macd", "bollinger", "ema", "sma", "stochastic"}
         THEN DictSet(results, low, mk[low])
         ELSE IF low = "volume" /\ vol
         THEN DictSet(results, "volume", mk["volume"])
         ELSE results

RECURSIVE ComputeAll(_, _, _, _)
ComputeAll(results, inds, mk, vol) ==
    IF inds = <<>> THEN results
    ELSE ComputeAll(ComputeIndicator(results, Head(inds), mk, vol), Tail(inds), mk, vol)

\* Lines 452-456: the signal read from a result, 'signal' before 'trend'.
SignalOf(value) ==
    IF value.signal.kind # "none" THEN value.signal
    ELSE IF value.trend.kind # "none" THEN value.trend
    ELSE NoneVal

\* Python truth value of a None / str / float.
Truthy(v) ==
    CASE v.kind = "none" -> FALSE
      [] v.kind = "str"  -> v.s # ""
      [] v.kind = "num"  -> v.n # 0

\* `signal in signal_weights`: only a str can equal a key.
InWeights(v) == v.kind = "str" /\ v.s \in DOMAIN signal_weights

\* One iteration of the scoring loop, lines 449-467, on the accumulator
\* acc = [total_score, valid_indicators, signal_details].
ScoreEntry(acc, key, value) ==
    IF ~value.error
    THEN LET signal == SignalOf(value) IN
         IF Truthy(signal) /\ InWeights(signal)
         THEN LET score == signal_weights[signal.s] IN
              [total_score      |-> acc.total_score + score,
               valid_indicators |-> acc.valid_indicators + 1,
               signal_details   |-> Append(acc.signal_details,
                                           [indicator |-> Upper(key),
                                            signal    |-> signal.s,
                                            score     |-> score])]
         ELSE acc
    ELSE acc

RECURSIVE ScoreAll(_, _)
ScoreAll(acc, results) ==
    IF results = <<>> THEN acc
    ELSE ScoreAll(ScoreEntry(acc, Head(results).key, Head(results).value), Tail(results))

Abs(x) == IF x < 0 THEN -x ELSE x

\* Variant of OverallSignal with strict comparisons at the thresholds.
OverallSignal_Strict(total_score, valid_indicators) ==
    IF valid_indicators > 0
    THEN CASE 2 * total_score > 3 * valid_indicators  -> "STRONG_BULLISH"
           [] 2 * total_score > valid_indicators      -> "BULLISH"
           [] 2 * total_score < -3 * valid_indicators -> "STRONG_BEARISH"
           [] 2 * total_score < -valid_indicators     -> "BEARISH"
           [] OTHER                                   -> "NEUTRAL"
    ELSE "UNKNOWN"

\* Variant of OverallSignal without the branch for zero valid indicators.
OverallSignal_NoUnknown(total_score, valid_indicators) ==
    CASE 2 * total_score >= 3 * valid_indicators /\ valid_indicators > 0 -> "STRONG_BULLISH"
      [] 2 * total_score >= valid_indicators /\ valid_indicators > 0     -> "BULLISH"
      [] 2 * total_score <= -3 * valid_indicators /\ valid_indicators > 0 -> "STRONG_BEARISH"
      [] 2 * total_score <= -valid_indicators /\ valid_indicators > 0    -> "BEARISH"
      [] OTHER                                                           -> "NEUTRAL"

\* Lines 470-491: average_score = total_score / valid_indicators as the exact
\* rational num/den, and the category by the first threshold that matches.
\* (The thresholds 1.5 and 0.5 are exact floats, and float division is
\* monotone, so the float comparisons are those of the exact quotient.)
OverallSignal(total_score, valid_indicators) ==
    IF valid_indicators > 0
    THEN CASE 2 * total_score >= 3 * valid_indicators  -> "STRONG_BULLISH"
           [] 2 * total_score >= valid_indicators      -> "BULLISH"
           [] 2 * total_score <= -3 * valid_indicators -> "STRONG_BEARISH"
           [] 2 * total_score <= -valid_indicators     -> "BEARISH"
           [] OTHER                                    -> "NEUTRAL"
    ELSE "UNKNOWN"

AverageScore(total_score, valid_indicators) ==
    IF valid_indicators > 0
    THEN [num |-> total_score, den |-> valid_indicators]
    ELSE [num |-> 0, den |-> 1]

\* The recommendation texts of lines 475-490 (transliterated to ASCII).
Recommendation(overall_signal) ==
    CASE overall_signal = "STRONG_BULLISH" -> "Tin hieu mua manh - Nen mua"
      [] overall_signal = "BULLISH"        -> "Tin hieu tang - Co the mua"
      [] overall_signal = "STRONG_BEARISH" -> "Tin hieu ban manh - Nen ban"
      [] overall_signal = "BEARISH"        -> "Tin hieu giam - Co the ban"
      [] overall_signal = "NEUTRAL"        -> "Tin hieu trung tinh - Quan sat them"
      [] OTHER                             -> "Khong the phan tich - Can kiem tra du lieu"

\* round(average_score, 2), in hundredths.  With at most seven scored
\* indicators no quotient lies on a rounding tie.
RoundedAverage(avg) == (200 * avg.num + avg.den) \div (2 * avg.den)

\* Variant of Confidence without abs().
Confidence_Signed(avg) ==
    IF avg.num * 30 > 100 * avg.den
    THEN [num |-> 100, den |-> 1]
    ELSE [num |-> avg.num * 30, den |-> avg.den]

\* Line 500: min(100, abs(average_score) * 30), as an exact rational.
Confidence(avg) ==
    IF Abs(avg.num) * 30 > 100 * avg.den
    THEN [num |-> 100, den |-> 1]
    ELSE [num |-> Abs(avg.num) * 30, den |-> avg.den]

\* Lines 445-501: results['summary'].
Summary(results) ==
    LET acc == ScoreAll([total_score |-> 0, valid_indicators |-> 0,
                         signal_details |-> <<>>], results)
        overall == OverallSignal(acc.total_score, acc.valid_indicators)
        avg == AverageScore(acc.total_score, acc.valid_indicators)
    IN [overall_signal   |-> overall,
        recommendation   |-> Recommendation(overall),
        average_score    |-> RoundedAverage(avg),
        total_score      |-> acc.total_score,
        valid_indicators |-> acc.valid_indicators,
        signal_details   |-> acc.signal_details,
        confidence       |-> Confidence(avg)]

\* calculate_multiple_indicators: the per-indicator entries of the returned
\* dict, its 'summary' entry, and the caller's list object afterwards.
calculate_multiple_indicators(ind, mk, vol) ==
    LET d == DefaultIndicators(ind, vol)
        res == ComputeAll(<<>>, d.local, mk, vol)
    IN [results |-> res, summary |-> Summary(res), indicators |-> d.caller]

\* ------------------------------------------------------------------------
\* Feature pipeline: predict_lstm_eth.py and lstm_train.py
\*
\* A price is an integer number of 1/Resolution units; so is every feature.
\* A normalized value is the exact rational num/den.
\* ------------------------------------------------------------------------

seq_len == 30
forecast_days == 7
rsi_window == 14
ema_window == 30
sma_10_window == 10
sma_50_window == 50
bollinger_window == 20
bollinger_std == 2
min_feature_rows == 100
min_data_rows == 100

\* The eleven columns of FEATURES, in order.
FEATURES ==
    <<"close", "rsi_14", "ema_30", "sma_10", "sma_50", "bb_upper", "bb_lower",
      "bb_width", "bb_position", "price_sma10_ratio", "price_sma50_ratio">>

Max(a, b) == IF a > b THEN a ELSE b
Min(a, b) == IF a < b THEN a ELSE b

\* The least s with s * s >= v (the square root, rounded up).
RECURSIVE SqrtSearch(_, _, _)
SqrtSearch(v, lo, hi) ==
    IF lo >= hi THEN lo
    ELSE LET mid == (lo + hi) \div 2 IN
         IF mid * mid >= v THEN SqrtSearch(v, lo, mid) ELSE SqrtSearch(v, mid + 1, hi)

Sqrt(v) == SqrtSearch(v, 0, Min(v, 40000))

\* Running sums of xs[lo..hi], by halves.
RECURSIVE RunningSums(_, _, _)
RunningSums(xs, lo, hi) ==
    IF lo > hi THEN <<>>
    ELSE IF lo = hi THEN <<xs[lo]>>
    ELSE LET mid == (lo + hi) \div 2
             l == RunningSums(xs, lo, mid)
             r == RunningSums(xs, mid + 1, hi)
         IN l \o [k \in 1..Len(r) |-> r[k] + l[Len(l)]]

\* PrefixSums(xs)[k + 1] is xs[1] + ... + xs[k].
PrefixSums(xs) == <<0>> \o RunningSums(xs, 1, Len(xs))

\* Sum of xs[t - w + 1 .. t], given the running sums ps of xs.
WindowSum(ps, t, w) == ps[t + 1] - ps[t + 1 - w]

\* delta = prices.diff(); delta.where(delta > 0, 0) and -delta.where(delta < 0, 0).
\* The first delta is NaN, which neither comparison accepts: both give 0 there.
Gains(close) == [i \in 1..Len(close) |-> IF i = 1 THEN 0 ELSE Max(close[i] - close[i - 1], 0)]
Losses(close) == [i \in 1..Len(close) |-> IF i = 1 THEN 0 ELSE Max(close[i - 1] - close[i], 0)]

\* The averages of an ewm(span=ema_window, adjust=False) over close[lo..hi],
\* by halves; prev is the average before lo (unused for the first row, whose
\* average is its price).
RECURSIVE EmaFrom(_, _, _, _)
EmaFrom(close, lo, hi, prev) ==
    IF lo = hi
    THEN << IF lo = 1 THEN close[1]
            ELSE (2 * close[lo] + (ema_window - 1) * prev) \div (ema_window + 1) >>
    ELSE LET mid == (lo + hi) \div 2
             l == EmaFrom(close, lo, mid, prev)
         IN l \o EmaFrom(close, mid + 1, hi, l[Len(l)])

\* calculate_ema: prices.ewm(span=window, adjust=False).mean().
calculate_ema(close) == IF Len(close) = 0 THEN <<>> ELSE EmaFrom(close, 1, Len(close), 0)

\* The running sums every rolling column is computed from.
Rolling(close) ==
    [close  |-> close,
     sum    |-> PrefixSums(close),
     sumsq  |-> PrefixSums([i \in 1..Len(close) |-> close[i] * close[i]]),
     gain   |-> PrefixSums(Gains(close)),
     loss   |-> PrefixSums(Losses(close)),
     ema    |-> calculate_ema(close)]

\* bollinger_window times the sum of squared deviations from the window's mean;
\* zero exactly when the window's prices are all equal.
Spread(r, t) ==
    bollinger_window * WindowSum(r.sumsq, t, bollinger_window)
        - WindowSum(r.sum, t, bollinger_window) * WindowSum(r.sum, t, bollinger_window)

\* prices.rolling(window).std(): the sample standard deviation.
RollingStd(r, t) ==
    Sqrt((Spread(r, t) + bollinger_window * (bollinger_window - 1) - 1)
             \div (bollinger_window * (bollinger_window - 1)))

\* Whether row t has a value in every column: rolling windows are full, the RSI
\* is not 0/0 and bb_position is not 0/0.
Defined(r, t) ==
    /\ t >= sma_50_window
    /\ t >= bollinger_window
    /\ t >= rsi_window
    /\ t >= sma_10_window
    /\ WindowSum(r.gain, t, rsi_window) + WindowSum(r.loss, t, rsi_window) > 0
    /\ Spread(r, t) > 0

\* Row t of the feature table, a defined row.
FeatureRow(r, t) ==
    LET c == r.close[t]
        g == WindowSum(r.gain, t, rsi_window)
        l == WindowSum(r.loss, t, rsi_window)
        sma10 == WindowSum(r.sum, t, sma_10_window) \div sma_10_window
        sma50 == WindowSum(r.sum, t, sma_50_window) \div sma_50_window
        sma20 == WindowSum(r.sum, t, bollinger_window) \div bollinger_window
        std == RollingStd(r, t)
        upper == sma20 + std * bollinger_std
        lower == sma20 - std * bollinger_std
        width == upper - lower
    IN << c,
          \* 100 - 100 / (1 + gain / loss)
          (100 * Resolution * g) \div (g + l),
          r.ema[t],
          sma10,
          sma50,
          upper,
          lower,
          width,
          ((c - lower) * Resolution) \div width,
          (c * Resolution) \div sma10,
          (c * Resolution) \div sma50 >>

\* A cell of the feature table before dropna(): a number, NaN, or an infinity.
NaN == [k |-> "nan", v |-> 0]
Inf == [k |-> "inf", v |-> 0]
Num(x) == [k |-> "num", v |-> x]

\* a / b on floats, scaled by `scale`: 0/0 is NaN, x/0 an infinity; NaN
\* operands give NaN.
Quotient(a, b, scale) ==
    IF a.k = "nan" \/ b.k = "nan" THEN NaN
    ELSE IF b.v = 0 THEN (IF a.v = 0 THEN NaN ELSE Inf)
    ELSE Num((a.v * scale) \div b.v)

\* prices.rolling(window=w).mean() at row t: NaN until the window is full.
RollingMean(ps, t, w) == IF t >= w THEN Num(WindowSum(ps, t, w) \div w) ELSE NaN

\* Row t of the table engineer_features builds before it calls dropna(), column
\* by column as lines 51-64 assign them.
FeatureTableRow(r, t) ==
    LET c == Num(r.close[t])
        gain == IF t >= rsi_window THEN Num(WindowSum(r.gain, t, rsi_window)) ELSE NaN
        loss == IF t >= rsi_window THEN Num(WindowSum(r.loss, t, rsi_window)) ELSE NaN
        \* rs = gain / loss; rsi = 100 - 100 / (1 + rs), which is 100 for rs = inf
        rsi == IF gain.k = "nan" THEN NaN
               ELSE IF gain.v + loss.v = 0 THEN NaN
               ELSE Num((100 * Resolution * gain.v) \div (gain.v + loss.v))
        sma10 == RollingMean(r.sum, t, sma_10_window)
        sma50 == RollingMean(r.sum, t, sma_50_window)
        sma20 == RollingMean(r.sum, t, bollinger_window)
        std == IF t >= bollinger_window THEN Num(RollingStd(r, t)) ELSE NaN
        upper == IF std.k = "nan" THEN NaN ELSE Num(sma20.v + std.v * bollinger_std)
        lower == IF std.k = "nan" THEN NaN ELSE Num(sma20.v - std.v * bollinger_std)
        width == IF std.k = "nan" THEN NaN ELSE Num(upper.v - lower.v)
        above == IF std.k = "nan" THEN NaN ELSE Num(c.v - lower.v)
    IN << c, rsi, Num(r.ema[t]), sma10, sma50, upper, lower, width,
          Quotient(above, width, Resolution),
          Quotient(c, sma10, Resolution),
          Quotient(c, sma50, Resolution) >>

\* Variant of DefinedRows that returns the retained rows latest first.
DefinedRows_Reversed(r) ==
    [k \in 1..Len(SelectSeq([t \in 1..Len(r.close) |-> t], LAMBDA t : Defined(r, t))) |->
        SelectSeq([t \in 1..Len(r.close) |-> t], LAMBDA t : Defined(r, t))[
            Len(SelectSeq([t \in 1..Len(r.close) |-> t], LAMBDA t : Defined(r, t))) + 1 - k]]

\* The rows dropna() keeps, by their position in the raw series, in order.
DefinedRows(r) == SelectSeq([t \in 1..Len(r.close) |-> t], LAMBDA t : Defined(r, t))

\* engineer_features of predict_lstm_eth.py: the table of defined rows.
engineer_features(close) ==
    LET r == Rolling(close)
        keep == DefinedRows(r)
    IN [k \in 1..Len(keep) |-> FeatureRow(r, keep[k])]

\* df_feat.iloc[-n:]: the last n rows, or all of them when there are fewer.
Tail_n(rows, n) ==
    IF Len(rows) <= n THEN rows ELSE SubSeq(rows, Len(rows) - n + 1, Len(rows))

\* engineer_features(df).iloc[-n:], computing only the rows it keeps.
LastFeatureRows(close, n) ==
    LET r == Rolling(close)
        keep == Tail_n(DefinedRows(r), n)
    IN [k \in 1..Len(keep) |-> FeatureRow(r, keep[k])]

\* ------------------------------------------------------------------------
\* Per-feature min-max scalers
\* ------------------------------------------------------------------------

\* The least and the greatest value of a column over rows lo..hi, by halves.
RECURSIVE ColumnMin(_, _, _, _)
ColumnMin(rows, col, lo, hi) ==
    IF lo = hi THEN rows[lo][col]
    ELSE LET mid == (lo + hi) \div 2 IN
         Min(ColumnMin(rows, col, lo, mid), ColumnMin(rows, col, mid + 1, hi))

RECURSIVE ColumnMax(_, _, _, _)
ColumnMax(rows, col, lo, hi) ==
    IF lo = hi THEN rows[lo][col]
    ELSE LET mid == (lo + hi) \div 2 IN
         Max(ColumnMax(rows, col, lo, mid), ColumnMax(rows, col, mid + 1, hi))

\* MinMaxScaler().fit on every column: data_min_ and data_max_ per feature.
FitScalers(rows) ==
    [col \in 1..Len(FEATURES) |->
        [min |-> ColumnMin(rows, col, 1, Len(rows)),
         max |-> ColumnMax(rows, col, 1, Len(rows))]]

\* data_range_, with sklearn's replacement of a zero range by 1.0.
ScalerRange(sc) == IF sc.max = sc.min THEN Resolution ELSE sc.max - sc.min

\* Variant of Transform that clips the result to the feature range [0, 1].
Transform_Clamped(sc, x) ==
    [num |-> Max(0, Min(x - sc.min, ScalerRange(sc))), den |-> ScalerRange(sc)]

\* scaler.transform(x) = (x - min) / range.
Transform(sc, x) == [num |-> x - sc.min, den |-> ScalerRange(sc)]

\* scaler.inverse_transform(y) = y * range + min, to the price resolution.
InverseTransform(sc, y) == (y.num * ScalerRange(sc)) \div y.den + sc.min

\* Variant of ScaleWindow that scales with fit_transform: every scaler is
\* refitted on the window it scales.
ScaleWindow_Refit(rows, scs) ==
    [scaled  |-> [k \in 1..Len(rows) |->
                     [col \in 1..Len(FEATURES) |->
                         Transform(FitScalers(rows)[col], rows[k][col])]],
     scalers |-> FitScalers(rows)]

\* Lines 91-93 and 117-119: every column of the window through its own scaler.
\* Returns the scaled window and the scalers as the calls leave them.
ScaleWindow(rows, scs) ==
    [scaled  |-> [k \in 1..Len(rows) |->
                     [col \in 1..Len(FEATURES) |-> Transform(scs[col], rows[k][col])]],
     scalers |-> scs]

\* normalize_features of lstm_train.py: fit_transform per column.
normalize_features(rows) ==
    LET scs == FitScalers(rows) IN
    [scaled  |-> [k \in 1..Len(rows) |->
                     [col \in 1..Len(FEATURES) |-> Transform(scs[col], rows[k][col])]],
     scalers |-> scs]

\* ------------------------------------------------------------------------
\* The indicators of technical_indicators.py
\*
\* A price or a volume is a small natural number.  A value computed from them
\* (an RSI, a %K, a ratio) is the exact fraction num/den with den > 0, or NaN;
\* a comparison with NaN is false, as for floats.
\* ------------------------------------------------------------------------

Frac(n, d) == [k |-> "num", num |-> n, den |-> d]
Whole(n) == Frac(n, 1)
NotANumber == [k |-> "nan", num |-> 0, den |-> 1]

FracGt(a, b) == a.k = "num" /\ b.k = "num" /\ a.num * b.den > b.num * a.den
FracGe(a, b) == a.k = "num" /\ b.k = "num" /\ a.num * b.den >= b.num * a.den
FracLt(a, b) == FracGt(b, a)
FracLe(a, b) == FracGe(b, a)

\* a + b and a / n on floats: NaN when an operand is NaN.
FracAdd(a, b) ==
    IF a.k = "nan" \/ b.k = "nan" THEN NotANumber
    ELSE Frac(a.num * b.den + b.num * a.den, a.den * b.den)
FracOver(a, n) == IF a.k = "nan" THEN NotANumber ELSE Frac(a.num, a.den * n)

\* The dict an indicator returns: `error` names the message of an error dict
\* ("" when the dict has no 'error' key), `signal` and `trend` hold the values
\* under these keys ("" when absent), `current` the current values the signal
\* was derived from.
IndicatorError(msg) == [error |-> msg, signal |-> "", trend |-> "", current |-> <<>>]
IndicatorSignal(s, cur) == [error |-> "", signal |-> s, trend |-> "", current |-> cur]
IndicatorTrend(t, cur) == [error |-> "", signal |-> "", trend |-> t, current |-> cur]

\* The least and the greatest of xs[lo..hi].
RECURSIVE MinOf(_, _, _)
MinOf(xs, lo, hi) == IF lo = hi THEN xs[lo] ELSE Min(xs[lo], MinOf(xs, lo + 1, hi))
RECURSIVE MaxOf(_, _, _)
MaxOf(xs, lo, hi) == IF lo = hi THEN xs[lo] ELSE Max(xs[lo], MaxOf(xs, lo + 1, hi))

RECURSIVE Pow(_, _)
Pow(b, e) == IF e = 0 THEN 1 ELSE b * Pow(b, e - 1)

\* series.ewm(alpha=1/period).mean() at row t, times a factor that depends on
\* period and t only: the sum of the weights (1 - 1/period)^age, scaled to
\* integers.  Ratios of two such sums at the same row are exact.
RECURSIVE EwmWeighted(_, _, _)
EwmWeighted(xs, period, t) ==
    IF t = 0 THEN 0
    ELSE (period - 1) * EwmWeighted(xs, period, t - 1) + Pow(period, t - 1) * xs[t]

\* Lines 34-35: rs = avg_gain / avg_loss; rsi = 100 - 100 / (1 + rs).  0/0 is
\* NaN; a zero loss with a gain gives rs = inf and rsi = 100.
RsiValue(avg_gain, avg_loss) ==
    IF avg_gain + avg_loss = 0 THEN NotANumber
    ELSE Frac(100 * avg_gain, avg_gain + avg_loss)

\* Lines 40-48.
RsiSignal(current_rsi) ==
    IF FracGe(current_rsi, Whole(70)) THEN "OVERBOUGHT"
    ELSE IF FracLe(current_rsi, Whole(30)) THEN "OVERSOLD"
    ELSE "NEUTRAL"

\* Variant of calculate_rsi that accepts a list of exactly `period` prices.
calculate_rsi_OneShort(prices, period) ==
    IF Len(prices) < period
    THEN IndicatorError("rsi_insufficient")
    ELSE LET n == Len(prices)
             current_rsi == RsiValue(EwmWeighted(Gains(prices), period, n),
                                     EwmWeighted(Losses(prices), period, n))
         IN IndicatorSignal(RsiSignal(current_rsi), [rsi |-> current_rsi])

\* TechnicalIndicators.calculate_rsi for a period >= 1.
calculate_rsi(prices, period) ==
    IF Len(prices) < period + 1
    THEN IndicatorError("rsi_insufficient")
    ELSE LET n == Len(prices)
             current_rsi == RsiValue(EwmWeighted(Gains(prices), period, n),
                                     EwmWeighted(Losses(prices), period, n))
         IN IndicatorSignal(RsiSignal(current_rsi), [rsi |-> current_rsi])

\* Sum of xs[lo..hi].
RECURSIVE SumOf(_, _, _)
SumOf(xs, lo, hi) == IF lo > hi THEN 0 ELSE xs[lo] + SumOf(xs, lo + 1, hi)

\* TechnicalIndicators.calculate_bollinger_bands with std_dev = 2 and a period
\* >= 2.  With S and Q the sums of the last `period` prices and of their
\* squares, the deviation of the price from the middle band is dev / period and
\* the standard deviation is sqrt(spread / (period * (period - 1))); the
\* comparisons with the bands are made on the squares, exactly.
calculate_bollinger_bands(prices, period) ==
    IF Len(prices) < period
    THEN IndicatorError("bollinger_insufficient")
    ELSE LET n == Len(prices)
             current_price == prices[n]
             S == SumOf(prices, n - period + 1, n)
             Q == SumOf([i \in 1..n |-> prices[i] * prices[i]], n - period + 1, n)
             dev == period * current_price - S
             spread == period * Q - S * S
             reach == (period - 1) * dev * dev >= 4 * period * spread
             \* 100 * period * std, to the next integer
             R == Sqrt((10000 * period * spread) \div (period - 1))
             \* line 142: 0/0 on a band of zero width
             band_position == IF spread = 0 THEN NotANumber
                              ELSE Frac(100 * dev + 2 * R, 4 * R)
             signal == IF dev >= 0 /\ reach THEN "OVERBOUGHT"
                       ELSE IF dev <= 0 /\ reach THEN "OVERSOLD"
                       ELSE IF dev > 0 THEN "BULLISH"
                       ELSE "BEARISH"
         IN IndicatorSignal(signal, [band_position |-> band_position,
                                     width_zero |-> spread = 0])

\* Line 353 at row t, with highs and lows left to default to the prices.
\* rolling(k_period) is NaN until the window is full; 0/0 is NaN.
k_percent(prices, k_period, t) ==
    IF t < k_period THEN NotANumber
    ELSE LET lowest_low == MinOf(prices, t - k_period + 1, t)
             highest_high == MaxOf(prices, t - k_period + 1, t)
         IN IF highest_high = lowest_low THEN NotANumber
            ELSE Frac(100 * (prices[t] - lowest_low), highest_high - lowest_low)

\* Sum of %K over rows lo..hi.
RECURSIVE k_percent_sum(_, _, _, _)
k_percent_sum(prices, k_period, lo, hi) ==
    IF lo = hi THEN k_percent(prices, k_period, lo)
    ELSE FracAdd(k_percent(prices, k_period, lo),
                 k_percent_sum(prices, k_period, lo + 1, hi))

\* Line 354 at row t: NaN while the window holds a NaN.
d_percent(prices, k_period, d_period, t) ==
    IF t < d_period THEN NotANumber
    ELSE FracOver(k_percent_sum(prices, k_period, t - d_period + 1, t), d_period)

\* Variant of StochasticSignal that looks for a crossover before the zones.
StochasticSignal_CrossoverFirst(current_k, current_d, prev_k, prev_d) ==
    IF FracGt(current_k, current_d) /\ FracLe(prev_k, prev_d) THEN "BUY"
    ELSE IF FracLt(current_k, current_d) /\ FracGe(prev_k, prev_d) THEN "SELL"
    ELSE IF FracGe(current_k, Whole(80)) /\ FracGe(current_d, Whole(80)) THEN "OVERBOUGHT"
    ELSE IF FracLe(current_k, Whole(20)) /\ FracLe(current_d, Whole(20)) THEN "OVERSOLD"
    ELSE IF FracGt(current_k, current_d) THEN "BULLISH"
    ELSE "BEARISH"

\* Lines 363-380.
StochasticSignal(current_k, current_d, prev_k, prev_d) ==
    IF FracGe(current_k, Whole(80)) /\ FracGe(current_d, Whole(80)) THEN "OVERBOUGHT"
    ELSE IF FracLe(current_k, Whole(20)) /\ FracLe(current_d, Whole(20)) THEN "OVERSOLD"
    ELSE IF FracGt(current_k, current_d) /\ FracLe(prev_k, prev_d) THEN "BUY"
    ELSE IF FracLt(current_k, current_d) /\ FracGe(prev_k, prev_d) THEN "SELL"
    ELSE IF FracGt(current_k, current_d) THEN "BULLISH"
    ELSE "BEARISH"

\* TechnicalIndicators.calculate_stochastic(prices) with highs and lows None
\* and k_period + d_period >= 2.
calculate_stochastic(prices, k_period, d_period) ==
    IF Len(prices) < k_period + d_period
    THEN IndicatorError("stochastic_insufficient")
    ELSE LET n == Len(prices)
             current_k == k_percent(prices, k_period, n)
             current_d == d_percent(prices, k_period, d_period, n)
             prev_k == k_percent(prices, k_period, n - 1)
             prev_d == d_percent(prices, k_period, d_period, n - 1)
         IN IndicatorSignal(StochasticSignal(current_k, current_d, prev_k, prev_d),
                            [current_k |-> current_k, current_d |-> current_d,
                             prev_k |-> prev_k, prev_d |-> prev_d])

\* Variant of MacdTrend that takes a zero histogram for a crossover.
MacdTrend_ZeroCrosses(current_macd, current_signal, prev_histogram, current_histogram) ==
    IF current_macd >= current_signal /\ prev_histogram <= 0 /\ current_histogram >= 0
    THEN "BUY"
    ELSE IF current_macd < current_signal /\ prev_histogram >= 0 /\ current_histogram < 0
    THEN "SELL"
    ELSE IF current_macd > current_signal THEN "BULLISH"
    ELSE "BEARISH"

\* Lines 88-99.
MacdTrend(current_macd, current_signal, prev_histogram, current_histogram) ==
    IF current_macd > current_signal /\ prev_histogram <= 0 /\ current_histogram > 0
    THEN "BUY"
    ELSE IF current_macd < current_signal /\ prev_histogram >= 0 /\ current_histogram < 0
    THEN "SELL"
    ELSE IF current_macd > current_signal THEN "BULLISH"
    ELSE "BEARISH"

\* series.ewm(span=span, adjust=False).mean() at row t, times (span + 1)^(t-1):
\* the first average is the first price, each later one is
\* (2 * price + (span - 1) * previous) / (span + 1).
RECURSIVE EmaScaled(_, _, _)
EmaScaled(xs, span, t) ==
    IF t = 1 THEN xs[1]
    ELSE 2 * xs[t] * Pow(span + 1, t - 2) + (span - 1) * EmaScaled(xs, span, t - 1)

\* Line 76 at row t, times ((fast_period + 1) * (slow_period + 1))^(t-1).
MacdLine(prices, fast_period, slow_period, t) ==
    EmaScaled(prices, fast_period, t) * Pow(slow_period + 1, t - 1)
        - EmaScaled(prices, slow_period, t) * Pow(fast_period + 1, t - 1)

\* Line 79 at row t, times
\* ((fast_period + 1) * (slow_period + 1) * (signal_period + 1))^(t-1).
RECURSIVE SignalLine(_, _, _, _, _)
SignalLine(prices, fast_period, slow_period, signal_period, t) ==
    IF t = 1 THEN MacdLine(prices, fast_period, slow_period, 1)
    ELSE 2 * MacdLine(prices, fast_period, slow_period, t) * Pow(signal_period + 1, t - 2)
         + (signal_period - 1) * (fast_period + 1) * (slow_period + 1)
               * SignalLine(prices, fast_period, slow_period, signal_period, t - 1)

\* TechnicalIndicators.calculate_macd for periods >= 1.  The lines at one row
\* are kept over one denominator, so that their comparisons are exact; the
\* dict's 'signal' key holds the signal line's number, kept here under
\* `current`, and the category is under 'trend'.
calculate_macd(prices, fast_period, slow_period, signal_period) ==
    IF Len(prices) < slow_period + signal_period
    THEN IndicatorError("macd_insufficient")
    ELSE LET n == Len(prices)
             current_macd == MacdLine(prices, fast_period, slow_period, n)
                                 * Pow(signal_period + 1, n - 1)
             current_signal == SignalLine(prices, fast_period, slow_period, signal_period, n)
             current_histogram == current_macd - current_signal
             prev_histogram ==
                 MacdLine(prices, fast_period, slow_period, n - 1)
                     * Pow(signal_period + 1, n - 2)
                 - SignalLine(prices, fast_period, slow_period, signal_period, n - 1)
         IN IndicatorTrend(MacdTrend(current_macd, current_signal, prev_histogram,
                                     current_histogram),
                           [macd |-> current_macd, signal |-> current_signal,
                            histogram |-> current_histogram,
                            prev_histogram |-> prev_histogram])

\* Variant of VolumeSignal whose thresholds are inclusive.
VolumeSignal_Inclusive(volume_ratio, price_change) ==
    IF FracGe(volume_ratio, Frac(3, 2))
    THEN (IF price_change > 0 THEN "STRONG_BULLISH" ELSE "STRONG_BEARISH")
    ELSE IF FracGe(volume_ratio, Frac(6, 5))
    THEN (IF price_change > 0 THEN "BULLISH" ELSE "BEARISH")
    ELSE "NEUTRAL"

\* Lines 299-315.
VolumeSignal(volume_ratio, price_change) ==
    IF FracGt(volume_ratio, Frac(3, 2))
    THEN (IF price_change > 0 THEN "STRONG_BULLISH" ELSE "STRONG_BEARISH")
    ELSE IF FracGt(volume_ratio, Frac(6, 5))
    THEN (IF price_change > 0 THEN "BULLISH" ELSE "BEARISH")
    ELSE "NEUTRAL"

\* TechnicalIndicators.calculate_volume for a period >= 1.  A list of another
\* length than the prices makes the DataFrame constructor raise, a zero
\* volumes[-2] or prices[-2] makes the division raise; line 329 turns each
\* into an error dict.  price_change is kept by its sign.
calculate_volume(prices, vols, period) ==
    IF Len(vols) < period
    THEN IndicatorError("volume_insufficient")
    ELSE IF Len(prices) # Len(vols)
    THEN IndicatorError("volume_failed")
    ELSE IF Len(vols) >= 2 /\ vols[Len(vols) - 1] = 0
    THEN IndicatorError("volume_failed")
    ELSE IF Len(prices) >= 2 /\ prices[Len(prices) - 1] = 0
    THEN IndicatorError("volume_failed")
    ELSE LET n == Len(vols)
             current_volume == vols[n]
             window == SumOf(vols, n - period + 1, n)
             \* current_volume / current_sma_volume, 0/0 being NaN
             volume_ratio == IF window = 0 THEN NotANumber
                             ELSE Frac(current_volume * period, window)
             price_change == IF Len(prices) >= 2
                             THEN prices[Len(prices)] - prices[Len(prices) - 1]
                             ELSE 0
         IN IndicatorSignal(VolumeSignal(volume_ratio, price_change),
                            [volume_ratio |-> volume_ratio, price_change |-> price_change])

\* ------------------------------------------------------------------------
\* State
\* ------------------------------------------------------------------------

VARIABLES
    \* calculate_multiple_indicators and its caller
    agg_pc,       \* "idle": no call made yet; "returned": the last call returned
    market,       \* what each calculate_* returns on the caller's price data
    volumes,      \* the truth value of the caller's `volumes`
    passed,       \* the indicator list as the caller built it
    indicators,   \* the caller's list object now
    ret,          \* the value the last call returned: [results, summary]
    first,        \* the value the first call returned
    calls,        \* calls made with these arguments
    \* the forecasters
    f_pc,         \* "start", "loop", "done", "failed" ("off": no forecast run)
    prog,         \* "predict" (predict_lstm_eth.py) or "multi" (lstm_train.py)
    predictor,    \* the model: "free" or "last_close"
    df,           \* the caller's frame: its date and close columns, its column names
    scalers,      \* per feature [min, max]; <<>> before a scaler is fitted
    step,         \* iterations of the forecast loop completed
    outputs,      \* every value model.predict has returned in this run, in order
    df_future,    \* predict: the series with the predictions appended
    scaled,       \* predict: the window last given to the model
    pred,         \* predict: the model's last output
    preds,        \* predict: the recorded outputs
    next_price,   \* predict: the first return value
    multi_prices, \* predict: the second return value
    current_sequence,  \* predict_multi_step: its window
    predictions,       \* predict_multi_step: the recorded outputs
    predicted_prices,  \* predict_multi_step: its return value
    implied,      \* predict_multi_step: the raw closes followed by the
                  \* denormalized predictions (the series its window stands for)
    \* the feature pipeline, the normalizer and the sequencer
    train_pc,       \* "loaded", "engineered", "normalized", "sequenced", "failed"
                    \* ("off": no pipeline run)
    entry,          \* whose engineer_features: "lstm_train" or "predict_lstm_eth"
    train_close,    \* the close column of the frame passed to engineer_features
    feature_data,   \* the rows engineer_features returned
    feature_index,  \* for each of them, its row in the frame it was passed
    scaled_data,    \* normalize_features: the scaled rows
    train_scalers,  \* normalize_features: the fitted scalers
    seq_input,      \* create_sequences: its arguments data and sequence_length
    sequence_length,
    X,              \* create_sequences: its return values
    y,
    \* a call of one calculate_* function
    ind_pc,       \* "ready", "returned" ("off": no such call)
    ind_fn,       \* the function called
    ind_args,     \* its arguments
    ind_result,   \* the dict it returned
    \* the command line program (main)
    main_pc,      \* "ready", "printed", "crashed" ("off": not run)
    argv,         \* its arguments
    main_out      \* what it printed

agg_vars == <<agg_pc, market, volumes, passed, indicators, ret, first, calls>>

run_vars == <<f_pc, prog, predictor, df, scalers, step, outputs>>

predict_vars == <<df_future, scaled, pred, preds, next_price, multi_prices>>

multi_vars == <<current_sequence, predictions, predicted_prices, implied>>

train_vars == <<train_pc, entry, train_close, feature_data, feature_index, scaled_data,
                train_scalers, seq_input, sequence_length, X, y>>

ind_vars == <<ind_pc, ind_fn, ind_args, ind_result>>

main_vars == <<main_pc, argv, main_out>>

vars == <<agg_vars, run_vars, predict_vars, multi_vars, train_vars, ind_vars, main_vars>>

\* The indicator lists a caller passes: None, or up to MaxList elements.
CallerLists ==
    {NoneList} \cup {ListOf(l) : l \in UNION {[1..n -> NameChoices] : n \in 0..MaxList}}

\* The indicators a call with this list computes.
Requested(ind, vol) ==
    LET l == DefaultIndicators(ind, vol).local IN
    {Lower(l[i]) : i \in 1..Len(l)} \cap
        (IF vol THEN IndicatorNames ELSE IndicatorNames \ {"volume"})

\* The price data a caller may hold, told apart by what each indicator returns
\* on it.  An indicator the call does not compute is held at one outcome.  A
\* call with an explicit list runs over every outcome of the indicators it
\* names; a call with the default list over the first MaxOutcomes of each.
Markets(req, all) ==
    LET Pick(name, list) ==
            IF name \in req
            THEN {list[i] : i \in 1..(IF all \/ Len(list) < MaxOutcomes
                                       THEN Len(list) ELSE MaxOutcomes)}
            ELSE {ErrorResult}
    IN {[rsi |-> a, macd |-> b, bollinger |-> c, ema |-> d, sma |-> e,
         stochastic |-> f, volume |-> g] :
           a \in Pick("rsi", RsiOutcomeList), b \in Pick("macd", MacdOutcomeList),
           c \in Pick("bollinger", BollingerOutcomeList), d \in Pick("ema", EmaOutcomeList),
           e \in Pick("sma", SmaOutcomeList), f \in Pick("stochastic", StochasticOutcomeList),
           g \in Pick("volume", VolumeOutcomeList)}

NoReturn == [results |-> <<>>, summary |-> Summary(<<>>)]

NoRational == [num |-> 0, den |-> 1]

ForecastIdle ==
    /\ f_pc = "off"
    /\ prog = "none"
    /\ predictor = "none"
    /\ df = [date |-> <<>>, close |-> <<>>, columns |-> <<>>]
    /\ scalers = <<>>
    /\ step = 0
    /\ outputs = <<>>
    /\ df_future = [date |-> <<>>, close |-> <<>>, columns |-> <<>>]
    /\ scaled = <<>>
    /\ pred = NoRational
    /\ preds = <<>>
    /\ next_price = 0
    /\ multi_prices = <<>>
    /\ current_sequence = <<>>
    /\ predictions = <<>>
    /\ predicted_prices = <<>>
    /\ implied = <<>>

AggIdle ==
    /\ agg_pc = "idle"
    /\ market = [n \in IndicatorNames |-> ErrorResult]
    /\ volumes = FALSE
    /\ passed = NoneList
    /\ indicators = NoneList
    /\ ret = NoReturn
    /\ first = NoReturn
    /\ calls = 0

TrainIdle ==
    /\ train_pc = "off"
    /\ entry = "none"
    /\ train_close = <<>>
    /\ feature_data = <<>>
    /\ feature_index = <<>>
    /\ scaled_data = <<>>
    /\ train_scalers = <<>>
    /\ seq_input = <<>>
    /\ sequence_length = 0
    /\ X = <<>>
    /\ y = <<>>

IndIdle ==
    /\ ind_pc = "off"
    /\ ind_fn = "none"
    /\ ind_args = <<>>
    /\ ind_result = IndicatorError("")

MainIdle ==
    /\ main_pc = "off"
    /\ argv = <<>>
    /\ main_out = <<>>

AggInit == AggIdle /\ ForecastIdle /\ TrainIdle /\ IndIdle /\ MainIdle

\* The caller's first call of calculate_multiple_indicators.
Invoke ==
    /\ agg_pc = "idle"
    /\ \E ind \in CallerLists, vol \in BOOLEAN :
         \E mk \in Markets(Requested(ind, vol), ~ind.none) :
            LET r == calculate_multiple_indicators(ind, mk, vol) IN
            /\ market' = mk
            /\ volumes' = vol
            /\ passed' = ind
            /\ indicators' = r.indicators
            /\ ret' = [results |-> r.results, summary |-> r.summary]
            /\ first' = [results |-> r.results, summary |-> r.summary]
    /\ agg_pc' = "returned"
    /\ calls' = 1

\* The caller calls again with the same price data and the same list object.
Repeat ==
    /\ agg_pc = "returned"
    /\ calls = 1
    /\ LET r == calculate_multiple_indicators(indicators, market, volumes) IN
         /\ indicators' = r.indicators
         /\ ret' = [results |-> r.results, summary |-> r.summary]
    /\ calls' = 2
    /\ UNCHANGED <<agg_pc, market, volumes, passed, first>>

AggNext ==
    /\ Invoke \/ Repeat
    /\ UNCHANGED <<run_vars, predict_vars, multi_vars, train_vars, ind_vars, main_vars>>

\* ------------------------------------------------------------------------
\* The forecasters
\* ------------------------------------------------------------------------

Last(s) == s[Len(s)]

\* The raw series the forecasters are run on: a rising zigzag with days
\* missing (1), a zigzag that stays flat for 23 days shortly before its end
\* (2), further zigzags, and a zigzag whose last 17 days are flat (0).
SeriesClose(p, n) ==
    [i \in 1..n |->
        IF (p = 2 /\ i >= n - 26 /\ i <= n - 4) \/ (p = 0 /\ i >= n - 16)
        THEN 20 * Resolution
        ELSE 20 * Resolution + (((i * (3 + p)) % 11) * Resolution) \div 2
                 + (IF p = 1 THEN i ELSE 0)]

SeriesDate(p, n) == [i \in 1..n |-> IF p = 1 /\ i > n \div 2 THEN i + 3 ELSE i]

\* model.predict on a window: the free model may return any of its levels, the
\* other one returns the normalized close of the window's last row.
PredictorOutputs(kind, window) ==
    IF kind = "last_close"
    THEN {Last(window)[1]}
    ELSE {[num |-> k, den |-> PredLevels] : k \in 0..PredLevels}

\* A forecast program about to run on a loaded series.  predict_lstm_eth.py
\* loads its scalers with the module (the ones a training run fitted on the
\* series' feature rows); lstm_train.py fits them before it forecasts.
ForecastInit ==
    /\ AggIdle
    /\ TrainIdle
    /\ IndIdle
    /\ MainIdle
    /\ \E p \in 0..NumSeries, n \in {ShortLen, FullLen} :
         /\ df = [date |-> SeriesDate(p, n), close |-> SeriesClose(p, n),
                 columns |-> <<"date", "close">>]
         /\ prog \in {"predict", "multi"}
         /\ scalers = IF prog = "predict"
                      THEN FitScalers(engineer_features(SeriesClose(p, n)))
                      ELSE <<>>
         \* the series with the flat end is run with the last_close model only
         /\ predictor \in IF p = 0 THEN {"last_close"} ELSE {"free", "last_close"}
    /\ f_pc = "start"
    /\ step = 0
    /\ outputs = <<>>
    /\ df_future = [date |-> <<>>, close |-> <<>>, columns |-> <<>>]
    /\ scaled = <<>>
    /\ pred = NoRational
    /\ preds = <<>>
    /\ next_price = 0
    /\ multi_prices = <<>>
    /\ current_sequence = <<>>
    /\ predictions = <<>>
    /\ predicted_prices = <<>>
    /\ implied = <<>>

\* Variant of Reshapes that accepts a window of any length.
Reshapes_Always(window, n) == TRUE

\* scaled.reshape(1, seq_len, scaled.shape[1]), lines 96 and 122: numpy raises
\* ValueError unless the window has exactly n rows.
Reshapes(window, n) == Len(window) = n

\* predict(), lines 84-102: features of the loaded series, the last seq_len
\* rows scaled, the first prediction.  reshape raises when the window has not
\* seq_len rows.
PredictStart ==
    /\ f_pc = "start"
    /\ prog = "predict"
    /\ \E sw \in {ScaleWindow(LastFeatureRows(df.close, seq_len), scalers)} :
          /\ scalers' = sw.scalers
          /\ IF ~Reshapes(sw.scaled, seq_len)
             THEN /\ f_pc' = "failed"
                  /\ UNCHANGED <<outputs, predict_vars>>
             ELSE \E out \in PredictorOutputs(predictor, sw.scaled) :
                  /\ f_pc' = "loop"
                  /\ scaled' = sw.scaled
                  /\ pred' = out
                  /\ outputs' = Append(outputs, out)
                  /\ next_price' = InverseTransform(sw.scalers[1], out)
                  /\ preds' = <<>>
                  /\ df_future' = df
                  /\ UNCHANGED multi_prices
    /\ UNCHANGED <<prog, predictor, df, step, agg_vars, train_vars, multi_vars>>

\* Variant of AppendPrediction that repeats the last date.
AppendPrediction_SameDate(future, close_scaler, p) ==
    [date  |-> Append(future.date, Last(future.date)),
     close |-> Append(future.close, InverseTransform(close_scaler, p)),
     columns |-> future.columns]

\* Variant of AppendPrediction that appends the prediction as the model
\* returned it, without inverse_transform.
AppendPrediction_NoInverse(future, close_scaler, p) ==
    [date  |-> Append(future.date, Last(future.date) + 1),
     close |-> Append(future.close, p.num \div p.den),
     columns |-> future.columns]

\* Lines 105-110: the row appended to df_future.
AppendPrediction(future, close_scaler, p) ==
    [date  |-> Append(future.date, Last(future.date) + 1),
     close |-> Append(future.close, InverseTransform(close_scaler, p)),
     columns |-> future.columns]

\* One iteration of the loop of lines 103-124.
PredictIter ==
    /\ f_pc = "loop"
    /\ prog = "predict"
    /\ step < forecast_days
    /\ \E future \in {AppendPrediction(df_future, scalers[1], pred)} :
       \E sw \in {ScaleWindow(LastFeatureRows(future.close, seq_len), scalers)} :
          /\ df_future' = future
          /\ scalers' = sw.scalers
          /\ IF ~Reshapes(sw.scaled, seq_len)
             THEN /\ f_pc' = "failed"
                  /\ UNCHANGED <<step, outputs, scaled, pred, preds>>
             ELSE \E out \in PredictorOutputs(predictor, sw.scaled) :
                  /\ scaled' = sw.scaled
                  /\ pred' = out
                  /\ outputs' = Append(outputs, out)
                  /\ preds' = Append(preds, out)
                  /\ step' = step + 1
                  /\ UNCHANGED f_pc
    /\ UNCHANGED <<prog, predictor, df, next_price, multi_prices, agg_vars, train_vars, multi_vars>>

\* Lines 126-131: the recorded outputs through the close scaler.
PredictFinish ==
    /\ f_pc = "loop"
    /\ prog = "predict"
    /\ step = forecast_days
    /\ multi_prices' = [k \in 1..Len(preds) |-> InverseTransform(scalers[1], preds[k])]
    /\ f_pc' = "done"
    /\ UNCHANGED <<prog, predictor, df, scalers, step, outputs, df_future, scaled, pred,
                   preds, next_price, agg_vars, train_vars, multi_vars>>

\* lstm_train.py's engineer_features, lines 170-189: the ten feature columns
\* are assigned on the frame it was passed.
AddFeatureColumns(frame) == [frame EXCEPT !.columns = frame.columns \o Tail(FEATURES)]

\* lstm_train.py up to the loop of predict_multi_step: load_and_prepare_data
\* (which raises below min_data_rows rows), engineer_features (which raises
\* below min_feature_rows rows), normalize_features, and lines 639-643.
MultiStart ==
    /\ f_pc = "start"
    /\ prog = "multi"
    /\ LET rows == engineer_features(df.close) IN
       IF Len(df.close) < min_data_rows
       THEN /\ f_pc' = "failed"
            /\ UNCHANGED <<df, scalers, multi_vars>>
       ELSE /\ df' = AddFeatureColumns(df)
            /\ IF Len(rows) < min_feature_rows
               THEN /\ f_pc' = "failed"
                    /\ UNCHANGED <<scalers, multi_vars>>
               ELSE LET nf == normalize_features(rows) IN
                    /\ f_pc' = "loop"
                    /\ scalers' = nf.scalers
                    /\ current_sequence' = Tail_n(nf.scaled, seq_len)
                    /\ predictions' = <<>>
                    /\ implied' = df.close
                    /\ UNCHANGED predicted_prices
    /\ UNCHANGED <<prog, predictor, step, outputs, agg_vars, train_vars, predict_vars>>

\* Lines 656-660: the last row copied, its close overwritten, the window shifted.
ShiftWindow(window, next_prediction) ==
    Append(Tail(window), [Last(window) EXCEPT ![1] = next_prediction])

\* One iteration of the loop of lines 645-660.
MultiIter ==
    /\ f_pc = "loop"
    /\ prog = "multi"
    /\ step < forecast_days
    /\ \E out \in PredictorOutputs(predictor, current_sequence) :
         /\ predictions' = Append(predictions, out)
         /\ outputs' = Append(outputs, out)
         /\ current_sequence' = ShiftWindow(current_sequence, out)
         /\ implied' = Append(implied, InverseTransform(scalers[1], out))
    /\ step' = step + 1
    /\ UNCHANGED <<f_pc, prog, predictor, df, scalers, predicted_prices, agg_vars, train_vars,
                   predict_vars>>

\* Lines 663-666.
MultiFinish ==
    /\ f_pc = "loop"
    /\ prog = "multi"
    /\ step = forecast_days
    /\ predicted_prices' =
           [k \in 1..Len(predictions) |-> InverseTransform(scalers[1], predictions[k])]
    /\ f_pc' = "done"
    /\ UNCHANGED <<prog, predictor, df, scalers, step, outputs, current_sequence,
                   predictions, implied, agg_vars, train_vars, predict_vars>>

ForecastNext ==
    /\ \/ PredictStart
       \/ PredictIter
       \/ PredictFinish
       \/ MultiStart
       \/ MultiIter
       \/ MultiFinish
    /\ UNCHANGED <<ind_vars, main_vars>>

\* ------------------------------------------------------------------------
\* The feature pipeline, the normalizer and the sequencer as lstm_train.py
\* chains them (train_enhanced_lstm_model, lines 473-481), and
\* engineer_features of predict_lstm_eth.py
\* ------------------------------------------------------------------------

\* Variant of create_sequences whose target is the last row of the window.
create_sequences_TargetInWindow(data, L) ==
    LET count == IF Len(data) > L THEN Len(data) - L ELSE 0
    IN [X |-> [k \in 1..count |-> [j \in 1..L |-> data[k - 1 + j]]],
        y |-> [k \in 1..count |-> data[k - 1 + L][1]]]

\* create_sequences, lines 248-255: for i in range(L, len(data)), with i
\* counted from 0, X gets data[i-L:i, :] and y gets data[i, 0].
create_sequences(data, L) ==
    LET count == IF Len(data) > L THEN Len(data) - L ELSE 0
    IN [X |-> [k \in 1..count |->
                  LET i == L + k - 1 IN [j \in 1..L |-> data[(i - L) + j]]],
        y |-> [k \in 1..count |-> LET i == L + k - 1 IN data[i + 1][1]]]

\* The lengths of the frames the pipeline is run on.
TrainLens == {ShortLen} \cup {n \in 1..FullLen : n >= FullLen - LenSpread}

PipelineInit ==
    /\ AggIdle
    /\ ForecastIdle
    /\ IndIdle
    /\ MainIdle
    /\ train_pc = "loaded"
    /\ entry \in {"lstm_train", "predict_lstm_eth"}
    /\ \E p \in 0..NumSeries, n \in TrainLens : train_close = SeriesClose(p, n)
    /\ feature_data = <<>>
    /\ feature_index = <<>>
    /\ scaled_data = <<>>
    /\ train_scalers = <<>>
    /\ seq_input = <<>>
    /\ sequence_length = 0
    /\ X = <<>>
    /\ y = <<>>

\* engineer_features: lstm_train.py's raises below min_feature_rows rows
\* (lines 201-203), predict_lstm_eth.py's returns whatever dropna() left.
Engineer ==
    /\ train_pc = "loaded"
    /\ LET rows == engineer_features(train_close) IN
       IF entry = "lstm_train" /\ Len(rows) < min_feature_rows
       THEN /\ train_pc' = "failed"
            /\ UNCHANGED <<feature_data, feature_index>>
       ELSE /\ train_pc' = "engineered"
            /\ feature_data' = rows
            /\ feature_index' = DefinedRows(Rolling(train_close))
    /\ UNCHANGED <<entry, train_close, scaled_data, train_scalers, seq_input,
                   sequence_length, X, y, agg_vars, run_vars, predict_vars, multi_vars>>

\* train_enhanced_lstm_model, line 477.
Normalize ==
    /\ train_pc = "engineered"
    /\ entry = "lstm_train"
    /\ LET nf == normalize_features(feature_data) IN
       /\ scaled_data' = nf.scaled
       /\ train_scalers' = nf.scalers
    /\ train_pc' = "normalized"
    /\ UNCHANGED <<entry, train_close, feature_data, feature_index, seq_input,
                   sequence_length, X, y, agg_vars, run_vars, predict_vars, multi_vars>>

\* train_enhanced_lstm_model, line 481.
Sequence ==
    /\ train_pc = "normalized"
    /\ LET s == create_sequences(scaled_data, seq_len) IN
       /\ X' = s.X
       /\ y' = s.y
    /\ seq_input' = scaled_data
    /\ sequence_length' = seq_len
    /\ train_pc' = "sequenced"
    /\ UNCHANGED <<entry, train_close, feature_data, feature_index, scaled_data,
                   train_scalers, agg_vars, run_vars, predict_vars, multi_vars>>

\* A call of create_sequences on the first rows of the scaled data with a
\* short window: more rows than the window, as many, or fewer.
SequenceDirect ==
    /\ train_pc = "normalized"
    /\ \E L \in 1..MaxWindow, n \in 0..(MaxWindow + MaxSamples) :
         /\ n <= L + MaxSamples
         /\ n <= Len(scaled_data)
         /\ LET data == SubSeq(scaled_data, 1, n)
                s == create_sequences(data, L)
            IN /\ X' = s.X
               /\ y' = s.y
               /\ seq_input' = data
               /\ sequence_length' = L
    /\ train_pc' = "sequenced"
    /\ UNCHANGED <<entry, train_close, feature_data, feature_index, scaled_data,
                   train_scalers, agg_vars, run_vars, predict_vars, multi_vars>>

PipelineNext ==
    /\ \/ Engineer
       \/ Normalize
       \/ Sequence
       \/ SequenceDirect
    /\ UNCHANGED <<ind_vars, main_vars>>

\* ------------------------------------------------------------------------
\* Calls of the calculate_* functions
\* ------------------------------------------------------------------------

\* A list of ten prices that zigzags upwards, ten equal prices, ten rising ones.
ExamplePrices == <<10, 12, 11, 13, 12, 14, 13, 15, 14, 16>>
FlatPrices == [i \in 1..10 |-> 10]
RisingPrices == [i \in 1..10 |-> 9 + i]

ShortPriceLists == UNION {[1..n -> 1..PriceLevels] : n \in 0..MaxPrices}

PriceLists == ShortPriceLists \cup {ExamplePrices, FlatPrices, RisingPrices}

\* Periods: short ones, and the defaults of the signatures.
RsiPeriods == {1, 2, 3, 14}
BollingerPeriods == {2, 3, 20}
StochasticPeriods == {<<1, 1>>, <<2, 2>>, <<3, 2>>, <<14, 3>>}
MacdPeriods == {<<1, 2, 1>>, <<1, 2, 2>>, <<12, 26, 9>>}
VolumePeriods == {1, 2, 20}

\* The values the Stochastic decision is applied to directly.
StochasticGrid == {Whole(0), Whole(20), Whole(50), Whole(80), Whole(100), NotANumber}

\* The prices that go with n volumes: flat, rising, falling or rising from
\* zero at the end, or one price too many.
VolumePrices(n) ==
    {[i \in 1..n |-> 2],
     [i \in 1..n |-> IF i = n THEN 3 ELSE 2],
     [i \in 1..n |-> IF i = n THEN 1 ELSE 2],
     [i \in 1..n |-> IF i = n - 1 THEN 0 ELSE 2],
     [i \in 1..(n + 1) |-> 2]}

IndicatorsInit ==
    /\ AggIdle
    /\ ForecastIdle
    /\ TrainIdle
    /\ MainIdle
    /\ ind_pc = "ready"
    /\ ind_fn = "none"
    /\ ind_args = <<>>
    /\ ind_result = IndicatorError("")

Return(fn, args, result) ==
    /\ ind_pc' = "returned"
    /\ ind_fn' = fn
    /\ ind_args' = args
    /\ ind_result' = result

CallRsi ==
    /\ ind_pc = "ready"
    /\ \E prices \in PriceLists, period \in RsiPeriods :
         Return("rsi", [prices |-> prices, period |-> period],
                calculate_rsi(prices, period))

CallMacd ==
    /\ ind_pc = "ready"
    /\ \E prices \in ShortPriceLists \cup {ExamplePrices}, p \in MacdPeriods :
         \* on the ten prices, the default periods only
         /\ Len(prices) <= MaxPrices \/ p = <<12, 26, 9>>
         /\ Return("macd", [prices |-> prices, fast_period |-> p[1],
                            slow_period |-> p[2], signal_period |-> p[3]],
                   calculate_macd(prices, p[1], p[2], p[3]))

CallBollinger ==
    /\ ind_pc = "ready"
    /\ \E prices \in PriceLists, period \in BollingerPeriods :
         Return("bollinger", [prices |-> prices, period |-> period],
                calculate_bollinger_bands(prices, period))

CallStochastic ==
    /\ ind_pc = "ready"
    /\ \E prices \in PriceLists, p \in StochasticPeriods :
         Return("stochastic", [prices |-> prices, k_period |-> p[1], d_period |-> p[2]],
                calculate_stochastic(prices, p[1], p[2]))

\* Lines 356-380 on given current and previous values.
DecideStochastic ==
    /\ ind_pc = "ready"
    /\ \E current_k \in StochasticGrid, current_d \in StochasticGrid,
          prev_k \in StochasticGrid, prev_d \in StochasticGrid :
         Return("stochastic_signal", <<>>,
                IndicatorSignal(StochasticSignal(current_k, current_d, prev_k, prev_d),
                                [current_k |-> current_k, current_d |-> current_d,
                                 prev_k |-> prev_k, prev_d |-> prev_d]))

CallVolume ==
    /\ ind_pc = "ready"
    /\ \E vols \in UNION {[1..n -> 0..VolumeLevels] : n \in 0..MaxVolumes},
          period \in VolumePeriods :
         \E prices \in VolumePrices(Len(vols)) :
            Return("volume", [prices |-> prices, volumes |-> vols, period |-> period],
                   calculate_volume(prices, vols, period))

IndicatorsNext ==
    /\ \/ CallRsi
       \/ CallMacd
       \/ CallBollinger
       \/ CallStochastic
       \/ DecideStochastic
       \/ CallVolume
    /\ UNCHANGED <<agg_vars, run_vars, predict_vars, multi_vars, train_vars, main_vars>>

\* ------------------------------------------------------------------------
\* The command line program
\* ------------------------------------------------------------------------

\* The indicator names given on the command line.
MainNames == IndicatorNames \cup {"all", "RSI", "Volume", "ALL", "foo", ""}

\* The third argument: not given, text that json.loads rejects, "null", "[]",
\* or a list of volumes.
VolumeArgs == {"absent", "unparsable", "null", "empty", "list"}

\* Lines 518-526: volumes stays None unless the argument parses; its truth value.
ParsedVolumes(arg) == arg = "list"

MainInit ==
    /\ AggIdle
    /\ ForecastIdle
    /\ TrainIdle
    /\ IndIdle
    /\ main_pc = "ready"
    /\ argv = <<>>
    /\ main_out = <<>>

Printed(kind, value) == [kind |-> kind, value |-> value]

\* main(), lines 505-563, on a command line whose price data is told apart by
\* what each calculate_* returns on it.
main(args) ==
    IF args.argc < 3
    THEN [pc |-> "printed", out |-> Printed("usage_error", <<>>)]
    ELSE IF ~args.prices_parse
    \* line 515 is outside any try: json.loads raises and the program ends
    THEN [pc |-> "crashed", out |-> <<>>]
    ELSE LET name == Lower(args.indicator_name)
             vol == ParsedVolumes(args.volumes)
         IN IF name \in IndicatorNames \ {"volume"}
            THEN [pc |-> "printed", out |-> Printed("result", args.market[name])]
            ELSE IF name = "volume" /\ vol
            THEN [pc |-> "printed", out |-> Printed("result", args.market[name])]
            ELSE IF name = "all"
            THEN LET r == calculate_multiple_indicators(NoneList, args.market, vol)
                 IN [pc |-> "printed",
                     out |-> Printed("aggregate",
                                     [results |-> r.results, summary |-> r.summary])]
            ELSE [pc |-> "printed", out |-> Printed("unsupported_error", <<>>)]

\* The program is run with fewer than two arguments.
RunWithoutArguments ==
    /\ main_pc = "ready"
    /\ \E argc \in 1..2 :
         \E args \in {[argc |-> argc, prices_parse |-> TRUE, indicator_name |-> "",
                       volumes |-> "absent",
                       market |-> [n \in IndicatorNames |-> ErrorResult]]} :
            /\ argv' = args
            /\ main_pc' = main(args).pc
            /\ main_out' = main(args).out

\* The program is run with a prices argument, an indicator name and possibly a
\* volumes argument.
Run ==
    /\ main_pc = "ready"
    /\ \E name \in MainNames, varg \in VolumeArgs, parse \in BOOLEAN :
         \E mk \in IF ~parse THEN {[n \in IndicatorNames |-> ErrorResult]}
                   ELSE IF Lower(name) = "all"
                   THEN Markets(Requested(NoneList, ParsedVolumes(varg)), FALSE)
                   ELSE Markets({Lower(name)} \cap IndicatorNames, TRUE) :
            \E args \in {[argc |-> IF varg = "absent" THEN 3 ELSE 4,
                          prices_parse |-> parse, indicator_name |-> name,
                          volumes |-> varg, market |-> mk]} :
               \E done \in {main(args)} :
                  /\ argv' = args
                  /\ main_pc' = done.pc
                  /\ main_out' = done.out

MainNext ==
    /\ \/ RunWithoutArguments
       \/ Run
    /\ UNCHANGED <<agg_vars, run_vars, predict_vars, multi_vars, train_vars, ind_vars>>

SpecAgg == AggInit /\ [][AggNext]_vars

SpecIndicators == IndicatorsInit /\ [][IndicatorsNext]_vars

SpecMain == MainInit /\ [][MainNext]_vars

SpecPipeline == PipelineInit /\ [][PipelineNext]_vars

SpecForecast == ForecastInit /\ [][ForecastNext]_vars

\* ------------------------------------------------------------------------
\* Claims about the aggregator (checked under SpecAgg)
\* ------------------------------------------------------------------------

\* The weight table as the specification prints it.
SpecWeight(s) ==
    CASE s = "STRONG_BULLISH" -> 3
      [] s = "BULLISH"        -> 2
      [] s = "BUY"            -> 2
      [] s = "OVERSOLD"       -> 1
      [] s = "NEUTRAL"        -> 0
      [] s = "OVERBOUGHT"     -> -1
      [] s = "BEARISH"        -> -2
      [] s = "SELL"           -> -2
      [] s = "STRONG_BEARISH" -> -3

\* The categorical signal an indicator result carries: MACD's is its trend.
Categorical(value) == IF value.signal.kind = "str" THEN value.signal.s ELSE value.trend.s

NonErrorEntries(res) == {i \in 1..Len(res) : ~res[i].value.error}

RECURSIVE SumWeights(_, _)
SumWeights(res, idx) ==
    IF idx = {} THEN 0
    ELSE LET i == CHOOSE j \in idx : TRUE IN
         SpecWeight(Categorical(res[i].value)) + SumWeights(res, idx \ {i})

RECURSIVE SumDetailWeights(_)
SumDetailWeights(details) ==
    IF details = <<>> THEN 0
    ELSE SpecWeight(Head(details).signal) + SumDetailWeights(Tail(details))

\* C1 (as claimed): every indicator result without an error contributes exactly
\* one entry to the breakdown and the weight of its categorical signal to
\* total_score, so valid_indicators is the number of non-error results.
C1_EveryNonErrorResultScored ==
    agg_pc = "returned" =>
        LET res == ret.results
            ok == NonErrorEntries(res)
        IN /\ ret.summary.valid_indicators = Cardinality(ok)
           /\ Len(ret.summary.signal_details) = Cardinality(ok)
           /\ ret.summary.total_score = SumWeights(res, ok)

\* C2: total_score is the sum of the fixed weights over the scored indicators
\* (the entries of the breakdown, each carrying its weight as its score), and
\* the reported average is total_score / number of scored indicators, to two
\* decimals.
C2_TotalIsWeightSum ==
    agg_pc = "returned" =>
        LET s == ret.summary
            d == s.signal_details
        IN /\ s.valid_indicators = Len(d)
           /\ \A i \in 1..Len(d) : d[i].score = SpecWeight(d[i].signal)
           /\ s.total_score = SumDetailWeights(d)
           /\ Len(d) > 0 =>
                \* |average_score - total/valid| <= 0.005
                2 * Abs(100 * s.total_score - s.average_score * Len(d)) <= Len(d)

\* C2 witness: at least five indicators scored, with weights of both signs.
C2_Witness ==
    /\ agg_pc = "returned"
    /\ ret.summary.valid_indicators >= 5
    /\ ret.summary.total_score = 4
    /\ \E i, j \in 1..Len(ret.summary.signal_details) :
         /\ ret.summary.signal_details[i].score = -3
         /\ ret.summary.signal_details[j].score = 3

\* C3: with at least one scored indicator the overall category is the first
\* match of: average >= 1.5 STRONG_BULLISH, >= 0.5 BULLISH, <= -1.5
\* STRONG_BEARISH, <= -0.5 BEARISH, otherwise NEUTRAL.
C3_OverallByThresholds ==
    (agg_pc = "returned" /\ ret.summary.valid_indicators > 0) =>
        LET t == ret.summary.total_score
            v == ret.summary.valid_indicators
            o == ret.summary.overall_signal
        IN /\ o \in {"STRONG_BULLISH", "BULLISH", "STRONG_BEARISH", "BEARISH", "NEUTRAL"}
           /\ (o = "STRONG_BULLISH") <=> (2 * t >= 3 * v)
           /\ (o = "BULLISH") <=> (2 * t >= v /\ 2 * t < 3 * v)
           /\ (o = "STRONG_BEARISH") <=> (2 * t <= -3 * v)
           /\ (o = "BEARISH") <=> (2 * t <= -v /\ 2 * t > -3 * v)
           /\ (o = "NEUTRAL") <=> (2 * t > -v /\ 2 * t < v)
           /\ -3 * v <= t /\ t <= 3 * v

\* C3 witness: an average of exactly 1.5, on the boundary, is STRONG_BULLISH.
C3_Witness ==
    /\ agg_pc = "returned"
    /\ ret.summary.valid_indicators = 2
    /\ ret.summary.total_score = 3
    /\ ret.summary.overall_signal = "STRONG_BULLISH"

\* C4: confidence = min(100, |total_score / valid_indicators| * 30), and it
\* lies in [0, 100].
C4_ConfidenceFormula ==
    agg_pc = "returned" =>
        LET t == ret.summary.total_score
            v == ret.summary.valid_indicators
            c == ret.summary.confidence
        IN /\ c.den > 0
           /\ 0 <= c.num /\ c.num <= 100 * c.den
           /\ v > 0 =>
                IF 30 * Abs(t) > 100 * v
                THEN c.num = 100 * c.den
                ELSE c.num * v = 30 * Abs(t) * c.den
           /\ v = 0 => c.num = 0

\* C4 witness: a bearish aggregate, whose confidence is 75.
C4_Witness ==
    /\ agg_pc = "returned"
    /\ ret.summary.total_score = -5
    /\ ret.summary.valid_indicators = 2
    /\ ret.summary.confidence.num = 75 * ret.summary.confidence.den

\* C5: when no indicator is valid (no entry, or every entry an error) the
\* summary is still returned, with overall category UNKNOWN, confidence 0,
\* zero valid indicators, zero total score and a non-empty recommendation.
C5_NoValidIsUnknown ==
    (agg_pc = "returned" /\ NonErrorEntries(ret.results) = {}) =>
        /\ ret.summary.overall_signal = "UNKNOWN"
        /\ ret.summary.confidence.num = 0
        /\ ret.summary.valid_indicators = 0
        /\ ret.summary.total_score = 0
        /\ ret.summary.signal_details = <<>>
        /\ ret.summary.recommendation # ""

\* C5 witness: two indicators were computed and both returned an error.
C5_Witness ==
    /\ agg_pc = "returned"
    /\ Len(ret.results) = 2
    /\ NonErrorEntries(ret.results) = {}
    /\ ret.summary.overall_signal = "UNKNOWN"

\* C6: an indicator whose computation fails is returned as an error entry
\* under its name and adds nothing to the breakdown, the count or the score;
\* whatever fails, the call returns and the summary is there.
C6_FailuresExcluded ==
    agg_pc = "returned" =>
        LET res == ret.results
            s == ret.summary
            failed == {n \in Requested(passed, volumes) : market[n].error}
        IN /\ \A n \in failed :
                /\ \E i \in 1..Len(res) : res[i].key = n /\ res[i].value.error
                /\ \A k \in 1..Len(s.signal_details) :
                     s.signal_details[k].indicator # Upper(n)
           /\ \A i \in 1..Len(res) :
                res[i].value.error =>
                    \A k \in 1..Len(s.signal_details) :
                        s.signal_details[k].indicator # Upper(res[i].key)
           /\ s.valid_indicators <= Cardinality(NonErrorEntries(res))
           /\ s.valid_indicators = Len(s.signal_details)
           /\ s.total_score = SumDetailWeights(s.signal_details)
           /\ s.overall_signal \in {"STRONG_BULLISH", "BULLISH", "STRONG_BEARISH",
                                     "BEARISH", "NEUTRAL", "UNKNOWN"}

\* C6 witness: one indicator failed, another was scored, a list element was
\* no string at all.
C6_Witness ==
    /\ agg_pc = "returned"
    /\ \E i, j \in 1..Len(ret.results) :
         /\ ret.results[i].key = "rsi" /\ ret.results[i].value.error
         /\ ret.results[j].key = "ema" /\ ~ret.results[j].value.error
    /\ ret.summary.valid_indicators = 1

\* C7: a second call with the same price data and the same list returns what
\* the first call returned, and the caller's list is as the caller built it.
C7_Idempotent ==
    /\ agg_pc = "returned" => indicators = passed
    /\ calls = 2 => ret = first

\* C7 witness: the second call on an explicit list, with volumes given, has
\* returned a scored aggregate.
C7_Witness ==
    /\ calls = 2
    /\ ~passed.none
    /\ volumes
    /\ Len(passed.items) = 2
    /\ ret.summary.valid_indicators = 2

\* ------------------------------------------------------------------------
\* Claims about the forecasters (checked under SpecForecast)
\* ------------------------------------------------------------------------

\* The window the full pipeline gives for a raw series: its last seq_len
\* feature rows, each column through its already fitted scaler.
RecomputedWindow(close) == ScaleWindow(LastFeatureRows(close, seq_len), scalers).scaled

\* Two windows hold the same normalized values.
SameWindow(w1, w2) ==
    /\ Len(w1) = Len(w2)
    /\ \A k \in 1..Len(w1) : \A col \in 1..Len(FEATURES) :
          w1[k][col].num * w2[k][col].den = w2[k][col].num * w1[k][col].den

\* C8 (as claimed): in a forecast run, the window given to the predictor after
\* each appended prediction has exactly seq_len rows and is the last seq_len
\* rows of the feature pipeline recomputed over the whole extended raw series,
\* normalized with the fitted scalers, in every column.  For predict() the
\* extended series is df_future; for predict_multi_step it is the loaded
\* series followed by the denormalized predictions made so far.
C8_WindowIsRecomputedPipeline ==
    /\ (prog = "predict" /\ f_pc = "loop" /\ step > 0) =>
           /\ Len(scaled) = seq_len
           /\ SameWindow(scaled, RecomputedWindow(df_future.close))
    /\ (prog = "multi" /\ f_pc = "loop" /\ step > 0 /\ step < forecast_days) =>
           /\ Len(current_sequence) = seq_len
           /\ SameWindow(current_sequence, RecomputedWindow(implied))

\* C9: each step of predict()'s loop appends exactly one observation to
\* df_future: its close is the denormalized prediction the step consumes (the
\* predictor's k-th output for step k) and its date is the previous last date
\* plus one day; after k steps df_future has the loaded length plus k and
\* strictly increasing dates, and its first rows are the loaded ones.
C9_OneObservationPerStep ==
    (prog = "predict" /\ f_pc \in {"loop", "done"}) =>
        LET n == Len(df.close) IN
        /\ Len(df_future.close) = n + step
        /\ Len(df_future.date) = n + step
        /\ \A i \in 1..n : /\ df_future.close[i] = df.close[i]
                           /\ df_future.date[i] = df.date[i]
        /\ \A k \in 1..step :
              /\ df_future.close[n + k] = InverseTransform(scalers[1], outputs[k])
              /\ df_future.date[n + k] = df_future.date[n + k - 1] + 1
        /\ \A i \in 1..(n + step - 1) : df_future.date[i] < df_future.date[i + 1]

\* C9 witness: predict() has finished its seven steps on a series with missing
\* days, with predictions that are not all the same.
C9_Witness ==
    /\ prog = "predict"
    /\ f_pc = "done"
    /\ step = forecast_days
    /\ Len(df_future.close) = Len(df.close) + forecast_days
    /\ Last(df.date) > Len(df.date)
    /\ Last(df_future.date) = Last(df.date) + forecast_days
    /\ \E j, k \in 1..forecast_days :
          df_future.close[Len(df.close) + j] # df_future.close[Len(df.close) + k]

\* C10: the scalers are frozen during a forecast run: no step of predict(),
\* and no step of predict_multi_step once lstm_train.py has fitted them,
\* changes any scaler's fitted (min, max).
C10_ScalersFrozen ==
    [][(prog = "predict" \/ f_pc # "start") => scalers' = scalers]_vars

\* C10 witness: a forecast has run through all its steps with the scalers it
\* started with, on an extended series whose features would fit other scalers.
C10_Witness ==
    /\ prog = "predict"
    /\ f_pc = "done"
    /\ step = forecast_days
    /\ scalers = FitScalers(engineer_features(df.close))
    /\ scalers # FitScalers(engineer_features(df_future.close))

\* C11: a forecast run with the predictor that always returns the normalized
\* close of its window's last row stays flat: every denormalized prediction
\* (predict()'s next_price and multi_prices, predict_multi_step's
\* predicted_prices), and every close appended on the way, equals the last
\* close of the loaded series.
C11_FlatForecast ==
    predictor = "last_close" =>
        /\ (prog = "predict" /\ f_pc \in {"loop", "done"}) =>
              /\ next_price = Last(df.close)
              /\ \A i \in (Len(df.close) + 1)..Len(df_future.close) :
                    df_future.close[i] = Last(df.close)
              /\ InverseTransform(scalers[1], pred) = Last(df.close)
        /\ (prog = "predict" /\ f_pc = "done") =>
              /\ Len(multi_prices) = forecast_days
              /\ \A k \in 1..Len(multi_prices) : multi_prices[k] = Last(df.close)
        /\ (prog = "multi" /\ f_pc \in {"loop", "done"}) =>
              \A k \in 1..Len(predictions) :
                  InverseTransform(scalers[1], predictions[k]) = Last(df.close)
        /\ (prog = "multi" /\ f_pc = "done") =>
              /\ Len(predicted_prices) = forecast_days
              /\ \A k \in 1..Len(predicted_prices) : predicted_prices[k] = Last(df.close)

\* C11 witness: predict() has returned seven predictions from the last_close
\* predictor on a series whose last close is not the close the scaler's range
\* starts or ends at.
C11_Witness ==
    /\ predictor = "last_close"
    /\ prog = "predict"
    /\ f_pc = "done"
    /\ Len(multi_prices) = forecast_days
    /\ Last(df.close) > scalers[1].min
    /\ Last(df.close) < scalers[1].max

\* C12 (as claimed): a forecast run that returns forecast_days multi-step
\* predictions has invoked the predictor exactly once per forecast step, that
\* is forecast_days times.  `outputs` holds one entry per call of
\* model.predict.
C12_PredictorOncePerStep ==
    /\ (prog = "predict" /\ f_pc = "done") =>
          /\ Len(multi_prices) = forecast_days
          /\ Len(outputs) = forecast_days
    /\ (prog = "multi" /\ f_pc = "done") =>
          /\ Len(predicted_prices) = forecast_days
          /\ Len(outputs) = forecast_days

\* C13: when the features of the (extended) series give fewer than seq_len
\* rows, predict() fails: the error propagates to the caller, the predictor is
\* not invoked on the short window and no forecast is returned; and predict()
\* goes on only while the series gives seq_len rows.
C13_ShortWindowFails ==
    prog = "predict" =>
        /\ Len(outputs) > 0 => Len(scaled) = seq_len
        /\ f_pc = "failed" =>
              /\ Len(LastFeatureRows(df_future.close, seq_len)) < seq_len
              /\ multi_prices = <<>>
              /\ Len(outputs) = step
        /\ f_pc \in {"loop", "done"} =>
              Len(LastFeatureRows(df_future.close, seq_len)) = seq_len

\* C13 witness: predict() has failed on a series that gives some feature rows,
\* but fewer than seq_len, without a call of the predictor.
C13_Witness ==
    /\ prog = "predict"
    /\ f_pc = "failed"
    /\ outputs = <<>>
    /\ Len(engineer_features(df.close)) > 0
    /\ Len(engineer_features(df.close)) < seq_len

\* C14 (as claimed): no step of the pipeline changes the caller's series: its
\* rows, its columns and its values stay as they were before the call, through
\* feature engineering and through a complete forecast run.
C14_CallerSeriesUnchanged == [][df' = df]_vars

\* ------------------------------------------------------------------------
\* Claims about the feature pipeline, the normalizer and the sequencer
\* (checked under SpecPipeline)
\* ------------------------------------------------------------------------

\* engineer_features has returned rows.
Engineered == train_pc \in {"engineered", "normalized", "sequenced"}

\* A row of the table before dropna() without a NaN, and a row of numbers.
NoNaN(row) == \A col \in 1..Len(FEATURES) : row[col].k # "nan"
AllNumbers(row) == \A col \in 1..Len(FEATURES) : row[col].k = "num"

\* C15: every row engineer_features returns has a number in each of the eleven
\* columns of FEATURES, in that order, taken unchanged from the table built
\* before dropna(); the rows returned are exactly the rows of that table
\* without a NaN, and they come in their original order.
C15_RowsCompleteAndOrdered ==
    Engineered =>
        LET r == Rolling(train_close)
            complete == {t \in 1..Len(train_close) : NoNaN(FeatureTableRow(r, t))}
        IN /\ Len(FEATURES) = 11
           /\ Len(feature_data) = Cardinality(complete)
           /\ Len(feature_index) = Len(feature_data)
           /\ \A k \in 1..Len(feature_data) :
                 LET before == FeatureTableRow(r, feature_index[k]) IN
                 /\ feature_index[k] \in complete
                 /\ k > 1 => feature_index[k - 1] < feature_index[k]
                 /\ DOMAIN feature_data[k] = 1..Len(FEATURES)
                 /\ AllNumbers(before)
                 /\ \A col \in 1..Len(FEATURES) : feature_data[k][col] = before[col].v

\* C15 witness: engineer_features has returned rows from a series in which
\* rows are dropped after the warm-up, with retained rows on both sides.
C15_Witness ==
    /\ Engineered
    /\ \E k \in 2..Len(feature_index) : feature_index[k] > feature_index[k - 1] + 1
    /\ feature_index[1] = sma_50_window

\* C16 (as claimed): engineer_features does not return rows for a series that
\* has, past the warm-up of the band, a row whose Bollinger band has zero width
\* (bb_upper = bb_lower): computing bb_position there raises instead of giving
\* NaN and letting the row be dropped.
C16_DegenerateBandRaises ==
    Engineered =>
        \A t \in bollinger_window..Len(train_close) :
            LET row == FeatureTableRow(Rolling(train_close), t) IN
            ~(row[8].k = "num" /\ row[8].v = 0)

\* C17 (as claimed): at every entry point, engineer_features fails when fewer
\* than min_feature_rows complete rows remain after dropna(), and returns rows
\* only when at least min_feature_rows remain.
C17_FewRowsFail ==
    /\ Engineered => Len(feature_data) >= min_feature_rows
    /\ train_pc = "failed" =>
           Len(engineer_features(train_close)) < min_feature_rows

\* C18: create_sequences on n rows with window L returns one sample for every
\* i in [L, n): the input of the sample is the rows [i - L, i) in order and its
\* target is the close (column 1) of row i. It returns n - L samples when
\* n > L, and no sample, without failing, when n <= L.
C18_OneSamplePerPosition ==
    train_pc = "sequenced" =>
        LET n == Len(seq_input)
            L == sequence_length
        IN /\ Len(X) = (IF n > L THEN n - L ELSE 0)
           /\ Len(y) = Len(X)
           /\ \A k \in 1..Len(X) :
                 /\ X[k] = SubSeq(seq_input, k, k + L - 1)
                 /\ y[k] = seq_input[k + L][1]

\* C18 witness: create_sequences has returned samples from more rows than the
\* window, the target of a sample differing from the close of its last row.
C18_Witness ==
    /\ train_pc = "sequenced"
    /\ Len(seq_input) > sequence_length
    /\ Len(X) = Len(seq_input) - sequence_length
    /\ \E k \in 1..Len(X) :
          LET a == y[k]
              b == X[k][sequence_length][1]
          IN a.num * b.den # b.num * a.den

\* C18, the boundary: create_sequences was called on exactly as many rows as
\* the window and returned no sample.
C18_WitnessNoSample ==
    /\ train_pc = "sequenced"
    /\ sequence_length > 0
    /\ Len(seq_input) = sequence_length
    /\ X = <<>>
    /\ y = <<>>

\* C19 (as claimed): every sample is built from contiguous rows of the raw
\* series: the window of a sample and its target are sequence_length + 1
\* consecutive time steps, also when dropna() removed rows in the middle of
\* the series. feature_index[k] is the time step of the k-th retained row.
C19_SamplesContiguous ==
    train_pc = "sequenced" =>
        \A k \in 1..Len(X) :
            feature_index[k + sequence_length] - feature_index[k] = sequence_length

\* The values of column col of the rows returned by engineer_features.
ColumnValues(col) == {feature_data[k][col] : k \in 1..Len(feature_data)}

\* Values around the fitted range of a scaler: below its minimum, above its
\* maximum, and one whole range above.
Probes(sc) == {sc.min - Resolution, sc.max + Resolution, sc.max + ScalerRange(sc)}

\* C20: after normalize_features every feature has its own scaler, fitted on
\* the minimum and maximum of its own column only; inverse_transform of
\* transform gives back every value of the fitted column, scaled into [0, 1];
\* a value outside [min, max] is scaled outside [0, 1], not clipped, and the
\* round trip gives it back too.
C20_ScalerRoundTrip ==
    train_pc \in {"normalized", "sequenced"} =>
        /\ DOMAIN train_scalers = 1..Len(FEATURES)
        /\ \A col \in 1..Len(FEATURES) :
              LET sc == train_scalers[col] IN
              /\ sc.min \in ColumnValues(col)
              /\ sc.max \in ColumnValues(col)
              /\ \A x \in ColumnValues(col) :
                    /\ sc.min <= x /\ x <= sc.max
                    /\ Transform(sc, x).num >= 0
                    /\ Transform(sc, x).num <= Transform(sc, x).den
                    /\ InverseTransform(sc, Transform(sc, x)) = x
              /\ \A k \in 1..Len(feature_data) :
                    scaled_data[k][col] = Transform(sc, feature_data[k][col])
              /\ \A x \in Probes(sc) :
                    /\ InverseTransform(sc, Transform(sc, x)) = x
                    /\ x < sc.min => Transform(sc, x).num < 0
                    /\ x > sc.max => Transform(sc, x).num > Transform(sc, x).den

\* C20 witness: normalize_features has fitted scalers with different ranges
\* for the close and for another feature, and a close above the fitted
\* maximum is scaled above 1.
C20_Witness ==
    /\ train_pc = "normalized"
    /\ \E col \in 2..Len(FEATURES) : train_scalers[col] # train_scalers[1]
    /\ train_scalers[1].max > train_scalers[1].min
    /\ LET t == Transform(train_scalers[1], train_scalers[1].max + Resolution)
       IN t.num > t.den

\* ------------------------------------------------------------------------
\* Further claims about the aggregator (checked under SpecAgg)
\* ------------------------------------------------------------------------

\* C29 (as claimed): for every name in the list passed to
\* calculate_multiple_indicators the returned results hold an entry, an
\* indicator result or an error, under that name (lower-cased, or the element
\* itself when .lower() raised): no element of the list is skipped.
C29_EveryNameHasEntry ==
    (agg_pc = "returned" /\ ~passed.none) =>
        \A i \in 1..Len(passed.items) :
            \/ Lower(passed.items[i]) \in DictKeys(ret.results)
            \/ passed.items[i] \in DictKeys(ret.results)

\* ------------------------------------------------------------------------
\* Further claims about the forecasters (checked under SpecForecast)
\* ------------------------------------------------------------------------

\* C27 (as claimed): in a completed forecast run the k-th recorded prediction
\* is the output of the k-th call of the predictor, the first call being the
\* one on the last seq_len feature rows of the loaded series and the k-th the
\* one made after k - 1 predictions were appended; and the closes appended to
\* the series are the recorded predictions, denormalized, in order.
C27_RecordedAreAppended ==
    /\ (prog = "predict" /\ f_pc = "done") =>
          /\ Len(multi_prices) = forecast_days
          /\ \A k \in 1..forecast_days :
                /\ preds[k] = outputs[k]
                /\ df_future.close[Len(df.close) + k] = multi_prices[k]
    /\ (prog = "multi" /\ f_pc = "done") =>
          /\ Len(predicted_prices) = forecast_days
          /\ \A k \in 1..forecast_days :
                /\ predictions[k] = outputs[k]
                /\ implied[Len(df.close) + k] = predicted_prices[k]

\* C21: an indicator returns its insufficient-data error, and no signal or
\* trend, exactly when it is given fewer prices than its minimum: period + 1
\* for RSI, slow_period + signal_period for MACD, k_period + d_period for
\* Stochastic.  RSI on period + 1 prices or more returns a result without error.
C21_MinimumLength ==
    ind_pc = "returned" =>
        LET short == ind_result.error # ""
            silent == ind_result.signal = "" /\ ind_result.trend = ""
        IN /\ ind_fn = "rsi" =>
                /\ short <=> Len(ind_args.prices) < ind_args.period + 1
                /\ short => ind_result.error = "rsi_insufficient" /\ silent
           /\ ind_fn = "macd" =>
                /\ short <=> Len(ind_args.prices) < ind_args.slow_period + ind_args.signal_period
                /\ short => ind_result.error = "macd_insufficient" /\ silent
           /\ ind_fn = "stochastic" =>
                /\ short <=> Len(ind_args.prices) < ind_args.k_period + ind_args.d_period
                /\ short => ind_result.error = "stochastic_insufficient" /\ silent

\* RSI with period 3 on the ten example prices has returned a signal.
C21_Witness ==
    /\ ind_pc = "returned"
    /\ ind_fn = "rsi"
    /\ ind_args = [prices |-> ExamplePrices, period |-> 3]
    /\ ind_result.error = ""
    /\ ind_result.signal # ""

\* C22: the RSI value returned for period + 1 prices or more is a number
\* between 0 and 100.
C22_RsiInRange ==
    (ind_pc = "returned" /\ ind_fn = "rsi"
        /\ Len(ind_args.prices) >= ind_args.period + 1) =>
        /\ ind_result.error = ""
        /\ ind_result.current.rsi.k = "num"
        /\ ind_result.current.rsi.num >= 0
        /\ ind_result.current.rsi.num <= 100 * ind_result.current.rsi.den

\* C28: an indicator whose current value is undefined (RSI with no gain and no
\* loss, Stochastic over a flat window, Bollinger bands of zero width) returns
\* no signal category.
C28_NoCategoryFromUndefined ==
    (ind_pc = "returned" /\ ind_result.error = "") =>
        /\ (ind_fn = "rsi" /\ ind_result.current.rsi.k = "nan") => ind_result.signal = ""
        /\ (ind_fn = "stochastic" /\ ind_result.current.current_k.k = "nan")
               => ind_result.signal = ""
        /\ (ind_fn = "bollinger" /\ ind_result.current.width_zero)
               => ind_result.signal = ""

\* C24: the Stochastic signal is decided by the first rule that matches: %K and
\* %D both at 80 or more give OVERBOUGHT; both at 20 or less give OVERSOLD; %K
\* above %D now and not above before gives BUY; %K below %D now and not below
\* before gives SELL; otherwise BULLISH when %K is above %D and BEARISH when it
\* is not.  Every input gets exactly one of the six signals.
C24_StochasticFirstMatch ==
    (ind_pc = "returned" /\ ind_fn \in {"stochastic", "stochastic_signal"}
        /\ ind_result.error = "") =>
        LET k == ind_result.current.current_k
            d == ind_result.current.current_d
            pk == ind_result.current.prev_k
            pd == ind_result.current.prev_d
            Above(a, b) == a.num * b.den > b.num * a.den
            AtLeast(a, n) == a.num >= n * a.den
            AtMost(a, n) == a.num <= n * a.den
            numbers == k.k = "num" /\ d.k = "num" /\ pk.k = "num" /\ pd.k = "num"
        IN /\ ind_result.signal \in
                  {"OVERBOUGHT", "OVERSOLD", "BUY", "SELL", "BULLISH", "BEARISH"}
           /\ numbers =>
                ind_result.signal =
                    IF AtLeast(k, 80) /\ AtLeast(d, 80) THEN "OVERBOUGHT"
                    ELSE IF AtMost(k, 20) /\ AtMost(d, 20) THEN "OVERSOLD"
                    ELSE IF Above(k, d) /\ ~Above(pk, pd) THEN "BUY"
                    ELSE IF Above(d, k) /\ ~Above(pd, pk) THEN "SELL"
                    ELSE IF Above(k, d) THEN "BULLISH"
                    ELSE "BEARISH"

\* An upward crossover inside the overbought zone has been reported as the zone.
C24_Witness ==
    /\ ind_pc = "returned"
    /\ ind_fn = "stochastic_signal"
    /\ ind_result.current = [current_k |-> Whole(100), current_d |-> Whole(80),
                             prev_k |-> Whole(80), prev_d |-> Whole(100)]
    /\ ind_result.signal = "OVERBOUGHT"

\* C25: the MACD trend is BUY exactly when the histogram goes from zero or
\* less to more than zero, SELL exactly when it goes from zero or more to less
\* than zero, and otherwise BULLISH when the MACD line is above the signal
\* line and BEARISH when it is below; every case gets exactly one trend.
C25_MacdTrend ==
    (ind_pc = "returned" /\ ind_fn = "macd" /\ ind_result.error = "") =>
        LET m == ind_result.current.macd
            s == ind_result.current.signal
            h == ind_result.current.histogram
            p == ind_result.current.prev_histogram
            up == p <= 0 /\ h > 0
            down == p >= 0 /\ h < 0
        IN /\ h = m - s
           /\ ind_result.trend \in {"BUY", "SELL", "BULLISH", "BEARISH"}
           /\ ind_result.trend = "BUY" <=> up
           /\ ind_result.trend = "SELL" <=> down
           /\ (~up /\ ~down /\ m > s) => ind_result.trend = "BULLISH"
           /\ (~up /\ ~down /\ m < s) => ind_result.trend = "BEARISH"

\* The histogram has crossed zero upwards and the trend is BUY.
C25_Witness ==
    /\ ind_pc = "returned"
    /\ ind_fn = "macd"
    /\ ind_result.error = ""
    /\ ind_result.current.prev_histogram <= 0
    /\ ind_result.current.histogram > 0
    /\ ind_result.trend = "BUY"

\* C26: with ratio the current volume over the volume average, a ratio above
\* 1.5 gives STRONG_BULLISH when the price rose and STRONG_BEARISH when it
\* fell, a ratio above 1.2 and at most 1.5 gives BULLISH or BEARISH likewise,
\* and a ratio of at most 1.2 gives NEUTRAL; every case gets exactly one of the
\* five signals.
C26_VolumeSignal ==
    (ind_pc = "returned" /\ ind_fn = "volume" /\ ind_result.error = "") =>
        LET n == Len(ind_args.volumes)
            cur == ind_args.volumes[n] * ind_args.period
            avg == SumOf(ind_args.volumes, n - ind_args.period + 1, n)
            rose == ind_args.prices[n] > ind_args.prices[n - 1]
            fell == ind_args.prices[n] < ind_args.prices[n - 1]
            high == 2 * cur > 3 * avg
            raised == 5 * cur > 6 * avg /\ ~high
            low == avg > 0 /\ 5 * cur <= 6 * avg
        IN /\ ind_result.signal \in
                  {"STRONG_BULLISH", "STRONG_BEARISH", "BULLISH", "BEARISH", "NEUTRAL"}
           /\ n >= 2 =>
                /\ (high /\ rose) => ind_result.signal = "STRONG_BULLISH"
                /\ (high /\ fell) => ind_result.signal = "STRONG_BEARISH"
                /\ (raised /\ rose) => ind_result.signal = "BULLISH"
                /\ (raised /\ fell) => ind_result.signal = "BEARISH"
           /\ low => ind_result.signal = "NEUTRAL"

\* The volume is exactly 1.5 times its average while the price rose: BULLISH.
C26_Witness ==
    /\ ind_pc = "returned"
    /\ ind_fn = "volume"
    /\ ind_result.error = ""
    /\ ind_result.current.volume_ratio = Frac(6, 4)
    /\ ind_result.current.price_change > 0
    /\ ind_result.signal = "BULLISH"

\* C23: the command line program prints an unsupported-indicator error,
\* without failing, for every name other than rsi, macd, bollinger, ema, sma,
\* stochastic, volume and all (compared without regard to case), and prints
\* the indicator's result or the aggregate for each of these names.
C23_CommandSurface ==
    (main_pc # "ready" /\ argv.argc >= 3) =>
        LET name == Lower(argv.indicator_name) IN
        /\ main_pc = "printed"
        /\ name \notin IndicatorNames \cup {"all"} =>
               main_out.kind = "unsupported_error"
        /\ name \in IndicatorNames =>
               main_out = Printed("result", argv.market[name])
        /\ name = "all" => main_out.kind = "aggregate"

====
